---- MODULE Spec2Model ----
(***************************************************************************)
(* A model of the chiapos table engine as embedded by subspace:            *)
(*   - UniformSort::SortToMemory          (src/src/uniformsort.hpp)        *)
(*   - SortManager                        (src/unnamed/part_000, 30-248)   *)
(*   - the subspace_chiapos_* entry points (src/src/subspace.hpp)          *)
(*   - DiskPlotter::CreatePlotDisk        (src/src/plotter_disk.hpp)       *)
(*   - the plot tables, the prover and the verifier as TestProofOfSpace    *)
(*     drives them (src/unnamed/part_000, 721-765), from the specification *)
(*   - FilteredDisk over a BufferedDisk   (src/unnamed/part_000, 436-523)  *)
(*   - BufferedDisk, the cached variant   (src/unnamed/part_000, 297-434)  *)
(*                                                                         *)
(* An entry of entry_len bytes is the big-endian integer its bytes spell,  *)
(* 0 <= e < 2^(8*entry_len); the all-zero entry is the integer 0.  Memory  *)
(* regions are indexed by slot (byte offset / entry_len).                  *)
(***************************************************************************)
EXTENDS Integers, Sequences, FiniteSets, TLC

VARIABLES
    \* ---- UniformSort::SortToMemory called on its own
    sort_input,        \* the num_entries entries at input_disk before the call
    sort_bits_begin,   \* bits_begin
    sort_res,          \* NoResult, or what the call left behind
    \* ---- SortManager
    buckets_,          \* buckets_[i]: the entries appended to bucket i (1-based)
    done,
    memory_start_,     \* NoBuffer, or the slots of the sort buffer
    prev_bucket_buf_,  \* NoBuffer, or the slots of the previous-bucket buffer
    prev_bucket_position_start,
    final_position_start,
    final_position_end,
    next_bucket_to_sort,
    memory_size_,      \* the constructor's memory_size, in bytes
    sm_added,          \* history: the entries passed to AddToCache, in call order
    sm_read_pos,       \* history: the next position of the sequential reader
    sm_read_log,       \* history: the entries the sequential reader got
    sm_ret,            \* NoEntry, or the entry the last ReadEntry returned
    sm_call,           \* history: the last call, its argument, the fields before
    sm_error,          \* "none", or the error the last call ended with
    \* ---- the subspace_chiapos_* entry points: the last call
    ffi_fn,            \* "none", "find_quality", "create_proof", "is_proof_valid"
    ffi_challenge_index,
    ffi_challenge,     \* the 32 bytes of challenge[] handed to the callee
    ffi_answer,        \* what the prover or the verifier did with the call
    ffi_ret,           \* "true", "false", or Escaped when the error left the call
    ffi_out,           \* the caller's output buffer after the call
    \* ---- DiskPlotter::CreatePlotDisk: one call
    plot_args,         \* the arguments of the call
    plot_pc,           \* where the call is
    plot_error,        \* "none", or the exception that ended the call
    plot_params,       \* NoParams, or what validation derived for the phases
                       \* (and header_size, once WriteHeader has returned)
    plot_steps,        \* history: the steps of the pipeline that have run
    tmp2_vector,       \* NoVector, or the bytes of the plot vector
    plot_returned,     \* NoVector, or the vector handed to the caller
    \* ---- a plot, its prover and the verifier under TestProofOfSpace
    pos_id,            \* the 32 bytes of the plot id
    pos_plot,          \* NoPlot, or the plot of pos_id
    pos_test,          \* NoTest, or what the last iteration of the test saw
    \* ---- FilteredDisk over a BufferedDisk
    filter_,           \* the bits of the bitfield, bit 0 first
    underlying_,       \* the bytes behind the BufferedDisk, offset 0 first
    fd_entry_size,     \* entry_size_ of the FilteredDisk
    last_physical_,
    last_logical_,
    last_idx_,
    fd_call,           \* history: the last call, its argument, the fields before
    fd_ret,            \* NoBytes, or the bytes the last Read returned
    fd_error,          \* "none", or the error the last call ended with
    \* BufferedDisk (cached variant)
    disk_,             \* the bytes of the backing vector, offset 0 first
    file_size_,
    read_buffer_start_,   \* -1 stands for std::uint64_t(-1)
    read_buffer_,
    read_buffer_size_,
    write_buffer_start_,  \* -1 stands for std::uint64_t(-1)
    write_buffer_,
    write_buffer_size_,
    bd_plain,          \* history: a plain byte array given the same Writes
    bd_nwrites,        \* history: the number of Writes made
    bd_call,           \* history: the last call and its arguments
    bd_ret,            \* NoBytes, or the bytes the last Read returned
    \* BufferedDisk::Read's static temp, shared by every disk object
    temp,              \* the bytes of static uint8_t temp[128]
    td_vector,         \* for each disk object, the bytes of its vector
    td_filtered,       \* the fields of the FilteredDisk among the objects
    td_held,           \* for each object, the result of its last Read
    td_call            \* history: the last call and its arguments

sortVars == <<sort_input, sort_bits_begin, sort_res>>
smCore == <<buckets_, done, memory_start_, prev_bucket_buf_,
            prev_bucket_position_start, final_position_start,
            final_position_end, next_bucket_to_sort, memory_size_>>
smHist == <<sm_added, sm_read_pos, sm_read_log>>
smVars == <<smCore, smHist, sm_ret, sm_error, sm_call>>
ffiVars == <<ffi_fn, ffi_challenge_index, ffi_challenge, ffi_answer,
             ffi_ret, ffi_out>>
plotVars == <<plot_args, plot_pc, plot_error, plot_params, plot_steps,
              tmp2_vector, plot_returned>>
posVars == <<pos_id, pos_plot, pos_test>>
fdCore == <<filter_, underlying_, fd_entry_size, last_physical_,
            last_logical_, last_idx_>>
fdVars == <<fdCore, fd_call, fd_ret, fd_error>>
bdCore == <<disk_, file_size_, read_buffer_start_, read_buffer_,
            read_buffer_size_, write_buffer_start_, write_buffer_,
            write_buffer_size_>>
bdVars == <<bdCore, bd_plain, bd_nwrites, bd_call, bd_ret>>
tdVars == <<temp, td_vector, td_filtered, td_held, td_call>>
vars == <<sortVars, smVars, ffiVars, plotVars, posVars, fdVars, bdVars, tdVars>>

\* ------------------------------------------------------------------------
\* Bounds of the model
\* ------------------------------------------------------------------------
\* The longest input handed to SortToMemory on its own.
MaxSortEntries == 3
\* The most entries added to one SortManager.
MaxAdded == 4
\* The entries of stripe_size + 10 * (kBC / 2^kExtraBits), of which the
\* previous-bucket buffer holds twice as many: the buffer is scaled down with
\* the buckets (the reference constants make it 4722 entries and more).
PrevBucketMargin == 1
\* The most entries added to a SortManager that is called in any order.
MaxCalledAdded == 3
\* The most entries added to a SortManager next to a FilteredDisk.
MaxRoAdded == 1
\* The most bits of the filter of a FilteredDisk.
MaxFilterBits == 4

\* ------------------------------------------------------------------------
\* Arithmetic helpers
\* ------------------------------------------------------------------------
Min(a, b) == IF a <= b THEN a ELSE b
Max(a, b) == IF a >= b THEN a ELSE b

RECURSIVE Log2Ceil(_)
\* The least n with 2^n >= x.
Log2Ceil(x) == IF x <= 1 THEN 0 ELSE 1 + Log2Ceil((x + 1) \div 2)

Count(s, v) == Cardinality({i \in DOMAIN s : s[i] = v})
\* Two sequences hold the same entries with the same multiplicities.
SameEntries(s, t) ==
    /\ Len(s) = Len(t)
    /\ \A i \in DOMAIN s : Count(s, s[i]) = Count(t, s[i])

\* ------------------------------------------------------------------------
\* util.hpp (not among the sources; modelled from the specification, 4.1
\* and 4.5)
\* ------------------------------------------------------------------------
\* Util::RoundSize: the number of slots of the output region of a sort of
\* `size` entries, "B = smallest power of two >= 2N".
RoundSize(size) == 2 ^ Log2Ceil(2 * size)

\* Util::ExtractNum: the take_bits bits of the entry that start at bit
\* begin_bits, counted from the most significant bit of byte 0; bits past the
\* end of the entry read as zero.
ExtractNum(entry, len_bytes, begin_bits, take_bits) ==
    LET w   == 8 * len_bytes
        pad == Max(0, begin_bits + take_bits - w)
    IN  ((entry * 2 ^ pad) \div 2 ^ (w + pad - begin_bits - take_bits))
            % 2 ^ take_bits

\* Util::MemCmpBits: compares the two entries by their bits from bits_begin
\* on; negative, zero or positive.
MemCmpBits(left, right, len, bits_begin) ==
    LET m == 2 ^ (8 * len - bits_begin)
    IN  (left % m) - (right % m)

\* ------------------------------------------------------------------------
\* UniformSort (src/src/uniformsort.hpp)
\* ------------------------------------------------------------------------
\* IsPositionEmpty: every byte of the slot is zero.
IsPositionEmpty(slot) == slot = 0

\* while ((1ULL << bucket_length) < 2 * num_entries) bucket_length++;
BucketLength(num_entries) == Log2Ceil(2 * num_entries)

RECURSIVE Probe_NeverSwaps(_, _, _, _, _, _)
Probe_NeverSwaps(memory, carry, pos, memory_slots, entry_len, bits_begin) ==
    IF pos < memory_slots /\ ~IsPositionEmpty(memory[pos])
    THEN Probe_NeverSwaps(memory, carry, pos + 1, memory_slots, entry_len,
                          bits_begin)
    ELSE [memory |-> memory, carry |-> carry, pos |-> pos]

RECURSIVE Probe(_, _, _, _, _, _)
\* The probe loop of one insertion, lines 54-63: `carry` is the entry at
\* input_disk + buf_ptr, pos a slot index, memory_slots = memory_len /
\* entry_len.  The loop's test reads the slot before it compares pos with
\* memory_len, so at pos = memory_slots it reads the slot after the region;
\* whatever that slot holds the loop ends there.  Returns the memory, the
\* carried entry and the slot the loop ended at.
Probe(memory, carry, pos, memory_slots, entry_len, bits_begin) ==
    IF pos < memory_slots /\ ~IsPositionEmpty(memory[pos])
    THEN IF MemCmpBits(memory[pos], carry, entry_len, bits_begin) > 0
         THEN Probe([memory EXCEPT ![pos] = carry], memory[pos], pos + 1,
                    memory_slots, entry_len, bits_begin)
         ELSE Probe(memory, carry, pos + 1, memory_slots, entry_len, bits_begin)
    ELSE [memory |-> memory, carry |-> carry, pos |-> pos]

RECURSIVE InsertAll(_, _, _, _, _, _, _)
\* The insertion loop, lines 47-67, from entry i (1-based) on.  st holds the
\* memory (slots 0 .. memory_slots, the last one being the slot after the
\* cleared region), the input as the swaps leave it, and past_end: whether
\* an entry was stored at byte offset memory_len.
InsertAll(st, i, num_entries, memory_slots, entry_len, bits_begin, bucket_length) ==
    IF i > num_entries THEN st
    ELSE LET pos == ExtractNum(st.input[i], entry_len, bits_begin, bucket_length)
             p   == Probe(st.memory, st.input[i], pos, memory_slots,
                          entry_len, bits_begin)
         IN  InsertAll(
                [memory   |-> [p.memory EXCEPT ![p.pos] = p.carry],
                 input    |-> [st.input EXCEPT ![i] = p.carry],
                 past_end |-> st.past_end \/ p.pos >= memory_slots],
                i + 1, num_entries, memory_slots, entry_len, bits_begin,
                bucket_length)

RECURSIVE Compact(_, _, _, _, _)
\* The compaction loop, lines 68-81.
Compact(memory, pos, entries_written, num_entries, memory_slots) ==
    IF entries_written < num_entries /\ pos < memory_slots
    THEN IF ~IsPositionEmpty(memory[pos])
         THEN Compact([memory EXCEPT ![entries_written] = memory[pos]],
                      pos + 1, entries_written + 1, num_entries, memory_slots)
         ELSE Compact(memory, pos + 1, entries_written, num_entries, memory_slots)
    ELSE [memory |-> memory, entries_written |-> entries_written]

\* SortToMemory(input_disk, memory, entry_len, num_entries, bits_begin).
\* `after` is what the slot at byte offset memory_len held before the call
\* (it belongs to the caller, the function does not clear it).
SortToMemory(input_disk, after, entry_len, num_entries, bits_begin) ==
    LET memory_slots  == RoundSize(num_entries)
        bucket_length == BucketLength(num_entries)
        cleared == [s \in 0 .. memory_slots |->
                        IF s < memory_slots THEN 0 ELSE after]
        ins == InsertAll([memory |-> cleared, input |-> input_disk,
                          past_end |-> FALSE],
                         1, num_entries, memory_slots, entry_len, bits_begin,
                         bucket_length)
        cmp == Compact(ins.memory, 0, 0, num_entries, memory_slots)
    IN  [memory          |-> cmp.memory,
         memory_slots    |-> memory_slots,
         input           |-> ins.input,
         past_end        |-> ins.past_end,
         entries_written |-> cmp.entries_written]

\* ------------------------------------------------------------------------
\* SortToMemory on its own
\* ------------------------------------------------------------------------
NoResult == [none |-> TRUE]

\* entry_len of the stand-alone calls: one byte.
SortEntryLen == 1
\* One-byte entries, none all-zero: the three leading bits (the slot of a
\* sort of up to four entries from bit 0) are 000, 001, 011, 101 and 111.
SortEntries == {1, 32, 96, 97, 160, 224, 255}
SortBitsBegin == {0, 1}
\* The bits of y in a one-byte entry, from bits_begin on (k + kExtraBits in
\* the tables); the bits after them are the rest of the entry.
SortYBits == 3

RECURSIVE SeqsUpTo(_, _)
\* The sequences over S of length at most n.
SeqsUpTo(S, n) ==
    IF n = 0 THEN {<<>>}
    ELSE LET shorter == SeqsUpTo(S, n - 1)
         IN  shorter \cup {Append(s, e) : s \in {t \in shorter : Len(t) = n - 1},
                                          e \in S}

SortInit ==
    /\ sort_input \in SeqsUpTo(SortEntries, MaxSortEntries)
    /\ sort_bits_begin \in SortBitsBegin
    /\ sort_res = NoResult

SortIdle ==
    /\ sort_input = <<>>
    /\ sort_bits_begin = 0
    /\ sort_res = NoResult

\* One call of SortToMemory on a region of exactly memory_len bytes.
SortCall ==
    /\ sort_res = NoResult
    /\ sort_res' = SortToMemory(sort_input, 0, SortEntryLen, Len(sort_input),
                                sort_bits_begin)
    /\ UNCHANGED <<sort_input, sort_bits_begin, smVars, ffiVars, plotVars, posVars, fdVars, bdVars,
                 tdVars>>

\* ------------------------------------------------------------------------
\* SortManager (src/unnamed/part_000, lines 30-248)
\* ------------------------------------------------------------------------
NoBuffer == <<"null">>
NoEntry == -2
NoCall == [op |-> "none"]
\* What a slot of a freshly allocated buffer holds: new uint8_t[n] leaves it
\* uninitialised.
Garbage == -1

\* The constructor's arguments of the modelled manager.
entry_size_ == 2
begin_bits_ == 4
log_num_buckets_ == 2
num_buckets == 4

\* The memory_size arguments tried, in bytes: room for 4 and for 16 entries.
MemorySizes == {8, 32}
\* Two-byte entries, none all-zero.  Bits 0-3 lie before begin_bits, bits
\* 4-5 pick the bucket, the sort key starts at bit 6.
\*   0x0001 0xF001  bucket 0, equal from begin_bits on
\*   0x0200         bucket 0
\*   0x07FE 0x07FF  bucket 1, the key's leading bits all ones
\*   0x0800         bucket 2
\*   0x0C00 0x0FFF  bucket 3, the second with the key's leading bits all ones
SmEntries == {1, 61441, 512, 2046, 2047, 2048, 3072, 4095}

\* b.size() of a bucket, in bytes.
BucketBytes(b) == Len(b) * entry_size_

RECURSIVE SumBytes(_, _)
\* The total size of buckets 1 .. n of bs.
SumBytes(bs, n) == IF n = 0 THEN 0 ELSE SumBytes(bs, n - 1) + BucketBytes(bs[n])

\* The manager's fields as a record, to thread through a call.
SmState ==
    [buckets |-> buckets_, done |-> done, memory |-> memory_start_,
     prev |-> prev_bucket_buf_, prev_start |-> prev_bucket_position_start,
     fps |-> final_position_start, fpe |-> final_position_end,
     next |-> next_bucket_to_sort, err |-> "none"]

\* Assigns the manager's fields from a record.
SmSet(st) ==
    /\ buckets_' = st.buckets
    /\ done' = st.done
    /\ memory_start_' = st.memory
    /\ prev_bucket_buf_' = st.prev
    /\ prev_bucket_position_start' = st.prev_start
    /\ final_position_start' = st.fps
    /\ final_position_end' = st.fpe
    /\ next_bucket_to_sort' = st.next
    /\ sm_error' = st.err
    /\ UNCHANGED memory_size_

\* SortBucket(), lines 205-247.  The sort writes RoundSize(bucket_entries)
\* slots, and one more when an insertion runs off the region; a write past
\* the memory_size_ bytes of the buffer is undefined behaviour, which ends the
\* call with err = "undefined" (nothing is known of the state after it).
SortBucket(st) ==
    LET slots == memory_size_ \div entry_size_
        mem0  == IF st.memory = NoBuffer
                 THEN [s \in 0 .. slots - 1 |-> Garbage]
                 ELSE st.memory
        st1   == [st EXCEPT !.memory = mem0, !.done = TRUE]
    IN  IF st.next >= num_buckets
        THEN [st1 EXCEPT !.err = "InvalidValue: bucket does not exist"]
        ELSE
        LET b == st.buckets[st.next + 1]
            bucket_entries == BucketBytes(b) \div entry_size_
            entries_fit_in_memory == memory_size_ \div entry_size_
        IN  IF bucket_entries > entries_fit_in_memory
            THEN [st1 EXCEPT !.err = "InsufficientMemory"]
            ELSE
            LET region == RoundSize(bucket_entries)
                after  == IF region < slots THEN mem0[region] ELSE Garbage
                r == SortToMemory(b, after, entry_size_, bucket_entries,
                                  begin_bits_ + log_num_buckets_)
                touched == IF r.past_end THEN region + 1 ELSE region
            IN  IF touched > slots
                THEN [st1 EXCEPT !.err = "undefined"]
                ELSE [st1 EXCEPT
                        !.memory = [s \in 0 .. slots - 1 |->
                                       IF s < touched THEN r.memory[s]
                                       ELSE mem0[s]],
                        !.buckets = [st.buckets EXCEPT ![st.next + 1] = r.input],
                        !.fps = st.fpe,
                        !.fpe = st.fpe + BucketBytes(b),
                        !.next = st.next + 1]

\* if (position >= this->final_position_end) SortBucket();
SortWhile_Once(st, position) ==
    IF position >= st.fpe THEN SortBucket(st) ELSE st

RECURSIVE SortWhile(_, _)
\* while (position >= this->final_position_end) SortBucket();  (120-122)
SortWhile(st, position) ==
    IF position >= st.fpe
    THEN LET s2 == SortBucket(st)
         IN  IF s2.err # "none" THEN s2 ELSE SortWhile(s2, position)
    ELSE st

\* The end of ReadEntry, lines 123-130, in the state s2 the loop left.
ReadSorted(s2, position) ==
    IF s2.err # "none" THEN [st |-> s2, ret |-> NoEntry]
    ELSE IF ~(s2.fpe > position)
    THEN [st |-> [s2 EXCEPT !.err = "InvalidValue: position too large"],
          ret |-> NoEntry]
    ELSE IF ~(s2.fps <= position)
    THEN [st |-> [s2 EXCEPT !.err = "InvalidValue: position too small"],
          ret |-> NoEntry]
    ELSE [st |-> s2, ret |-> s2.memory[(position - s2.fps) \div entry_size_]]

\* The read from the previous-bucket buffer, lines 112-117.
ReadPrevious(st, position) ==
    IF ~(position >= st.prev_start)
    THEN [st |-> [st EXCEPT !.err = "InvalidState: prev bucket start"],
          ret |-> NoEntry]
    ELSE IF st.prev = NoBuffer
    THEN \* assert(prev_bucket_buf_) fails, or a pointer off null is returned
         [st |-> [st EXCEPT !.err = "undefined"], ret |-> NoEntry]
    ELSE IF (position - st.prev_start) \div entry_size_ \in DOMAIN st.prev
    THEN [st |-> st, ret |-> st.prev[(position - st.prev_start) \div entry_size_]]
    ELSE [st |-> [st EXCEPT !.err = "undefined"], ret |-> NoEntry]

\* ReadEntry(position), lines 109-131: the state after the call and the
\* entry at the returned pointer (positions are multiples of entry_size_).
ReadEntry(st, position) ==
    IF position < st.fps
    THEN ReadPrevious(st, position)
    ELSE ReadSorted(SortWhile(st, position), position)

SmInit ==
    /\ buckets_ = [i \in 1 .. num_buckets |-> <<>>]
    /\ done = FALSE
    /\ memory_start_ = NoBuffer
    /\ prev_bucket_buf_ = NoBuffer
    /\ prev_bucket_position_start = 0
    /\ final_position_start = 0
    /\ final_position_end = 0
    /\ next_bucket_to_sort = 0
    /\ memory_size_ \in MemorySizes
    /\ sm_added = <<>>
    /\ sm_read_pos = 0
    /\ sm_read_log = <<>>
    /\ sm_ret = NoEntry
    /\ sm_error = "none"
    /\ sm_call = NoCall

SmIdle ==
    /\ buckets_ = [i \in 1 .. num_buckets |-> <<>>]
    /\ done = FALSE
    /\ memory_start_ = NoBuffer
    /\ prev_bucket_buf_ = NoBuffer
    /\ prev_bucket_position_start = 0
    /\ final_position_start = 0
    /\ final_position_end = 0
    /\ next_bucket_to_sort = 0
    /\ memory_size_ = 32
    /\ sm_added = <<>>
    /\ sm_read_pos = 0
    /\ sm_read_log = <<>>
    /\ sm_ret = NoEntry
    /\ sm_error = "none"
    /\ sm_call = NoCall

\* After undefined behaviour, and after a failed assert has aborted the
\* process, nothing more is modelled.
SmAlive == sm_error \notin {"undefined", "Unreachable: assert(false)"}

\* AddToCache without the test of lines 63-65.
AddToCache_NoDoneTest(entry) ==
    /\ SmAlive
    /\ Len(sm_added) < MaxAdded
    /\ buckets_' = [buckets_ EXCEPT
                       ![ExtractNum(entry, entry_size_, begin_bits_,
                                    log_num_buckets_) + 1] = Append(@, entry)]
    /\ sm_added' = Append(sm_added, entry)
    /\ sm_error' = "none"
    /\ sm_ret' = NoEntry
    /\ sm_call' = [op |-> "AddToCache", arg |-> entry, before |-> SmState]
    /\ UNCHANGED <<done, memory_start_, prev_bucket_buf_,
                   prev_bucket_position_start, final_position_start,
                   final_position_end, next_bucket_to_sort,
                   memory_size_, sm_read_pos, sm_read_log>>
    /\ UNCHANGED <<sortVars, ffiVars, plotVars, posVars, fdVars, bdVars,
                 tdVars>>

\* AddToCache(const uint8_t *entry), lines 61-70.
AddToCache(entry) ==
    /\ SmAlive
    /\ Len(sm_added) < MaxAdded
    /\ IF done
       THEN /\ sm_error' = "InvalidValue: already finished"
            /\ UNCHANGED <<smCore, smHist>>
       ELSE LET bucket_index ==
                    ExtractNum(entry, entry_size_, begin_bits_, log_num_buckets_)
            IN  /\ buckets_' = [buckets_ EXCEPT
                                   ![bucket_index + 1] = Append(@, entry)]
                /\ sm_added' = Append(sm_added, entry)
                /\ sm_error' = "none"
                /\ UNCHANGED <<done, memory_start_, prev_bucket_buf_,
                               prev_bucket_position_start, final_position_start,
                               final_position_end, next_bucket_to_sort,
                               memory_size_, sm_read_pos, sm_read_log>>
    /\ sm_ret' = NoEntry
    /\ sm_call' = [op |-> "AddToCache", arg |-> entry, before |-> SmState]
    /\ UNCHANGED <<sortVars, ffiVars, plotVars, posVars, fdVars, bdVars,
                 tdVars>>

\* The sequential reader: Read(sm_read_pos, entry_size_) for positions 0,
\* entry_size_, 2 * entry_size_, ... below the number of bytes added.
SeqRead ==
    /\ SmAlive
    /\ sm_read_pos < Len(sm_added) * entry_size_
    /\ LET r == ReadEntry(SmState, sm_read_pos)
       IN  /\ SmSet(r.st)
           /\ sm_ret' = r.ret
           /\ IF r.st.err = "none"
              THEN /\ sm_read_log' = Append(sm_read_log, r.ret)
                   /\ sm_read_pos' = sm_read_pos + entry_size_
              ELSE UNCHANGED <<sm_read_log, sm_read_pos>>
    /\ sm_call' = [op |-> "Read", arg |-> sm_read_pos, before |-> SmState]
    /\ UNCHANGED <<sm_added, sortVars, ffiVars, plotVars, posVars, fdVars, bdVars,
                 tdVars>>

\* The constructor, lines 43-44: prev_bucket_buf_size =
\* 2 * (stripe_size + 10 * (kBC / pow(2, kExtraBits))) * entry_size, bytes.
prev_bucket_buf_size == 2 * PrevBucketMargin * entry_size_

\* The entries and the positions of the calls made in any order: one entry
\* of bucket 0 (0x0200), of bucket 1 (0x0500) and of bucket 2 (0x0900), and
\* every entry boundary up to one past the bytes added.
SmFewEntries == {512, 1280, 2304}
SmPositions == {entry_size_ * i : i \in 0 .. Len(sm_added) + 1}

\* The end of a call made in any order: the fields, the returned entry and
\* the record of the call.
SmCall(op, arg, st, ret) ==
    /\ SmSet(st)
    /\ sm_ret' = ret
    /\ sm_call' = [op |-> op, arg |-> arg, before |-> SmState]
    /\ UNCHANGED <<smHist, sortVars, ffiVars, plotVars, posVars, fdVars, bdVars,
                 tdVars>>

\* Read(begin, length) with length = entry_size_, lines 72-76.
Read ==
    /\ SmAlive
    /\ \E begin \in SmPositions :
          SmCall("Read", begin, ReadEntry(SmState, begin).st,
                 ReadEntry(SmState, begin).ret)

\* Write(), lines 78-82: assert(false) aborts where asserts are compiled
\* in, the throw is reached where they are not.
Write ==
    /\ SmAlive
    /\ \E e \in {"Unreachable: assert(false)", "InvalidState: invalid Write()"} :
          SmCall("Write", 0, [SmState EXCEPT !.err = e], NoEntry)

\* FlushCache(), lines 169-173.
FlushCache ==
    /\ SmAlive
    /\ SmCall("FlushCache", 0,
              [SmState EXCEPT !.fpe = 0, !.memory = NoBuffer], NoEntry)

\* FreeMemory(), lines 100-107.
FreeMemory ==
    /\ SmAlive
    /\ SmCall("FreeMemory", 0,
              [SmState EXCEPT !.prev = NoBuffer, !.memory = NoBuffer,
                              !.fpe = 0], NoEntry)

Truncate_AnySize ==
    /\ SmAlive
    /\ \E new_size \in {0, entry_size_} :
          SmCall("Truncate", new_size,
                 [SmState EXCEPT !.prev = NoBuffer, !.memory = NoBuffer,
                                 !.fpe = 0],
                 NoEntry)

\* Truncate(new_size), lines 84-93: FlushCache() and FreeMemory() for 0.
Truncate ==
    /\ SmAlive
    /\ \E new_size \in {0, entry_size_},
          e \in {"Unreachable: assert(false)", "InvalidState: invalid Truncate()"} :
          SmCall("Truncate", new_size,
                 IF new_size # 0 THEN [SmState EXCEPT !.err = e]
                 ELSE [SmState EXCEPT !.prev = NoBuffer, !.memory = NoBuffer,
                                      !.fpe = 0],
                 NoEntry)

\* CloseToNewBucket(position), lines 133-141, in the state st.
CloseToNewBucket(st, position) ==
    IF ~(position <= st.fpe) THEN st.next < num_buckets
    ELSE /\ position + prev_bucket_buf_size \div 2 >= st.fpe
         /\ st.next < num_buckets

\* TriggerNewBucket(position), lines 143-167.  The memcpy of line 159 copies
\* final_position_end - position bytes into the prev_bucket_buf_size bytes
\* of the new buffer; when they are more, it writes past the buffer
\* (undefined behaviour): the call is lost there, or it goes on with the
\* buffer filled to its end.
TriggerNewBucket ==
    /\ SmAlive
    /\ \E position \in SmPositions :
       \E ub \in IF memory_start_ # NoBuffer
                     /\ final_position_end - position > prev_bucket_buf_size
                 THEN {"lost", "goes on"} ELSE {"goes on"} :
          LET st          == SmState
              cache_slots == (st.fpe - position) \div entry_size_
              from        == (position - st.fps) \div entry_size_
              prev_slots  == prev_bucket_buf_size \div entry_size_
              saved == [i \in 0 .. prev_slots - 1 |->
                           IF i < cache_slots THEN st.memory[from + i] ELSE 0]
              s2 == SortBucket(IF st.memory # NoBuffer
                               THEN [st EXCEPT !.prev = saved] ELSE st)
          IN  SmCall("TriggerNewBucket", position,
                 IF ~(position <= st.fpe)
                 THEN [st EXCEPT !.err = "InvalidValue: triggering bucket too late"]
                 ELSE IF ~(position >= st.fps)
                 THEN [st EXCEPT !.err = "InvalidValue: triggering bucket too early"]
                 ELSE IF st.memory # NoBuffer /\ cache_slots > prev_slots
                         /\ ub = "lost"
                 THEN [st EXCEPT !.err = "undefined"]
                 ELSE IF s2.err # "none" THEN s2
                 ELSE [s2 EXCEPT !.prev_start = position],
                 NoEntry)

\* ------------------------------------------------------------------------
\* The entry points of src/src/subspace.hpp
\* ------------------------------------------------------------------------
\* The prover (prover.hpp) and the verifier (verifier.hpp) are not among the
\* sources.  A call into them either throws or returns; what it returns is
\* an input of the model: a list of qualities, a proof, or one quality of
\* GetSize() 256 (EmptyBits stands for the LargeBits of size 0).
Thrown == [kind |-> "throws"]
Returned(v) == [kind |-> "returns", val |-> v]
EmptyBits == [bits |-> "empty"]
Qualities == {[bits |-> "qA"], [bits |-> "qB"]}
Proofs == {[bits |-> "pA"], [bits |-> "pB"]}
QualityLists == {<<>>} \cup {<<q>> : q \in Qualities}
                       \cup {<<q, r>> : q \in Qualities, r \in Qualities}

\* The answers of GetQualitiesForChallenge, GetFullProof and ValidateProof.
QualitiesAnswers == {Thrown} \cup {Returned(l) : l \in QualityLists}
ProofAnswers == {Thrown} \cup {Returned(p) : p \in Proofs}
ValidateAnswers == {Thrown} \cup {Returned(q) : q \in Qualities \cup {EmptyBits}}

\* The challenge_index arguments tried (uint32_t).
ChallengeIndexes == {0, 1, 31, 32, 255, 256, 65537, 16909060, 2147483647}

Unwritten == [bits |-> "unwritten"]
Escaped == "escaped"

\* A challenge that carries challenge_index in its last four bytes.
MakeChallenge_AtEnd(challenge_index) ==
    [i \in 0 .. 31 |->
        IF i >= 28 THEN (challenge_index \div 256 ^ (i - 28)) % 256 ELSE 0]

\* uint8_t challenge[32] = {0}; memcpy(challenge, &challenge_index, 4):
\* the four bytes of the uint32_t as they lie in memory, least significant
\* first on the little-endian targets the library is built for (x86-64,
\* aarch64); bytes are numbered 0 .. 31.
MakeChallenge(challenge_index) ==
    [i \in 0 .. 31 |->
        IF i < 4 THEN (challenge_index \div 256 ^ i) % 256 ELSE 0]

\* Bits(challenge, 32, 256).Slice(256 - 5).GetValue(): the last five of the
\* 256 bits, most significant bit first.
SliceLast5(challenge) == challenge[31] % 32

\* uint16_t quality_index = ... << 1;
QualityIndex(challenge) == (SliceLast5(challenge) * 2) % 65536

\* A handler that lets the error go on to the caller.
CatchAll_Rethrow(r) ==
    IF r = Thrown THEN [ret |-> Escaped, out |-> Unwritten] ELSE r

\* catch (...) { return false; }: what a call that ended in `r` returns.
CatchAll(r) ==
    IF r = Thrown THEN [ret |-> "false", out |-> Unwritten] ELSE r

\* A find_quality that writes qualities.back() instead of qualities.front().
FindQualityTry_Back(answer) ==
    IF answer = Thrown THEN Thrown
    ELSE IF answer.val # <<>>
         THEN [ret |-> "true", out |-> answer.val[Len(answer.val)]]
         ELSE [ret |-> "false", out |-> Unwritten]

\* The try block of subspace_chiapos_find_quality, lines 31-39.
FindQualityTry(answer) ==
    IF answer = Thrown THEN Thrown
    ELSE IF answer.val # <<>>
         THEN [ret |-> "true", out |-> Head(answer.val)]
         ELSE [ret |-> "false", out |-> Unwritten]

\* The try block of subspace_chiapos_create_proof, lines 52-53.
CreateProofTry(answer) ==
    IF answer = Thrown THEN Thrown
    ELSE [ret |-> "true", out |-> answer.val]

\* An is_proof_valid without the test found_quality.GetSize() != 0.
IsProofValidTry_NoSizeTest(answer, challenge) ==
    IF answer = Thrown THEN Thrown
    ELSE IF QualityIndex(challenge) = 0
         THEN [ret |-> "true", out |-> answer.val]
         ELSE [ret |-> "false", out |-> Unwritten]

\* The try block of subspace_chiapos_is_proof_valid, lines 70-84.
IsProofValidTry(answer, challenge) ==
    IF answer = Thrown THEN Thrown
    ELSE IF answer.val # EmptyBits /\ QualityIndex(challenge) = 0
         THEN [ret |-> "true", out |-> answer.val]
         ELSE [ret |-> "false", out |-> Unwritten]

FfiInit ==
    /\ ffi_fn = "none"
    /\ ffi_challenge_index = 0
    /\ ffi_challenge = MakeChallenge(0)
    /\ ffi_answer = Thrown
    /\ ffi_ret = "false"
    /\ ffi_out = Unwritten

\* The end of a call: r is what the try block came to.
FfiReturn(fn, challenge_index, answer, r) ==
    /\ ffi_fn' = fn
    /\ ffi_challenge_index' = challenge_index
    /\ ffi_challenge' = MakeChallenge(challenge_index)
    /\ ffi_answer' = answer
    /\ ffi_ret' = CatchAll(r).ret
    /\ ffi_out' = CatchAll(r).out
    /\ UNCHANGED <<sortVars, smVars, plotVars, posVars, fdVars, bdVars,
                 tdVars>>

\* subspace_chiapos_find_quality(prover, challenge_index, quality)
subspace_chiapos_find_quality ==
    \E challenge_index \in ChallengeIndexes, answer \in QualitiesAnswers :
        FfiReturn("find_quality", challenge_index, answer,
                  FindQualityTry(answer))

\* subspace_chiapos_create_proof(prover, challenge_index, proof)
subspace_chiapos_create_proof ==
    \E challenge_index \in ChallengeIndexes, answer \in ProofAnswers :
        FfiReturn("create_proof", challenge_index, answer,
                  CreateProofTry(answer))

\* subspace_chiapos_is_proof_valid(k, seed, challenge_index, proof, quality)
subspace_chiapos_is_proof_valid ==
    \E challenge_index \in ChallengeIndexes, answer \in ValidateAnswers :
        FfiReturn("is_proof_valid", challenge_index, answer,
                  IsProofValidTry(answer, MakeChallenge(challenge_index)))

\* ------------------------------------------------------------------------
\* DiskPlotter::CreatePlotDisk (src/src/plotter_disk.hpp)
\* ------------------------------------------------------------------------
\* pos_constants.hpp and entry_sizes.hpp are not among the sources; the
\* values are the reference implementation's, to which the specification
\* defers (3: "k in [minK, maxK] (typically 17..50)"; 4.2, 4.4).
kMinPlotSize == 17
kMaxPlotSize == 50
kMinBuckets == 16
kMaxBuckets == 128
kExtraBits == 6
kOffsetSize == 10
kIdLen == 32
\* kVectorLens[table_index + 1] for table_index 2 .. 6.
kVectorLensNext == [t \in 2 .. 6 |-> CASE t = 2 -> 2 [] t = 3 -> 4 [] t = 4 -> 4
                                       [] t = 5 -> 3 [] t = 6 -> 2]

\* Util::ByteAlign: the next multiple of 8.
ByteAlign(num_bits) == ((num_bits + 7) \div 8) * 8

\* EntrySizes::GetMaxEntrySize(k, table_index, phase_1_size = true), bytes.
GetMaxEntrySize(k, table_index) ==
    IF table_index = 1 THEN ByteAlign(k + kExtraBits + k) \div 8
    ELSE IF table_index \in 2 .. 6
    THEN ByteAlign(k + kExtraBits + k + kOffsetSize
                   + k * kVectorLensNext[table_index]) \div 8
    ELSE ByteAlign(3 * k - 1) \div 8

RECURSIVE MaxOver(_, _)
\* The largest f[i] for i in 1 .. n.
MaxOver(f, n) == IF n = 1 THEN f[1] ELSE Max(f[n], MaxOver(f, n - 1))

\* max_table_size = 1.3 * 2^k * MaxTableEntry(k), lines 89-94.
MaxTableEntry(k) == MaxOver([i \in 1 .. 7 |-> GetMaxEntrySize(k, i)], 7)

\* Util::RoundPow2: the least power of two >= a; 0 for 0.
RoundPow2(a) == IF a = 0 THEN 0 ELSE 2 ^ Log2Ceil(a)

\* a * 2^e < c for a >= 1, without forming the product.
ScaledLess(a, e, c) ==
    IF c <= 0 \/ e > 30 THEN FALSE
    ELSE IF 2 ^ e > c THEN FALSE
    ELSE 2 ^ e <= (c - 1) \div a

RECURSIVE CeilLog2Ratio(_, _, _, _)
\* From j on, the least j with 2^j >= a * 2^s / b (a, b >= 1): the base-2
\* logarithm of RoundPow2(ceil(a * 2^s / b)).
CeilLog2Ratio(a, s, b, j) ==
    IF (IF j >= s THEN 2 ^ (j - s) * b >= a
                  ELSE ScaledLess(1, s - j, (b \div a) + 1))
    THEN j
    ELSE CeilLog2Ratio(a, s, b, j + 1)

\* The uint32_t that the uint64_t 2^e converts to.
U32Pow2(e) == IF e >= 32 THEN 0 ELSE 2 ^ e

RECURSIVE FloorLog2(_)
\* (uint32_t) log2(x) for x >= 1.
FloorLog2(x) == IF x <= 1 THEN 0 ELSE 1 + FloorLog2(x \div 2)

\* 2 * Util::RoundPow2(ceil(max_table_size / (memory_size *
\* kMemSortProportion))) as the uint32_t num_buckets, lines 98-99, for
\* memory_size = memory_mb MiB > 0 and kMemSortProportion = 0.75:
\* the quotient is 26 * MaxTableEntry(k) * 2^k / (15 * memory_mb * 2^20).
ComputedNumBuckets(k, memory_mb) ==
    LET a == 26 * MaxTableEntry(k)
        s == Max(k - 20, 0)
        b == 15 * memory_mb * 2 ^ Max(20 - k, 0)
    IN  U32Pow2(CeilLog2Ratio(a, s, b, 0) + 1)

\* What the conversion of ceil(x / 0.0) = +inf to uint64_t can leave in
\* num_buckets (undefined behaviour): zero or a power of two.
UbNumBuckets == {0, 2, 16, 64, 128, 256, 1073741824}

NoParams == [none |-> TRUE]
NoVector == <<"null">>

\* The exceptions of exceptions.hpp, and the failure of an assert.
NoError == [kind |-> "none", what |-> ""]
InvalidValueException(what) == [kind |-> "InvalidValue", what |-> what]
InsufficientMemoryException(what) ==
    [kind |-> "InsufficientMemory", what |-> what]
AssertionFailure(what) == [kind |-> "Unreachable", what |-> what]
Rejected(e) == [err |-> e, params |-> NoParams]

\* ValidateBuckets without lines 102-106: a count below kMinBuckets is
\* neither rejected nor raised.
ValidateBuckets_NoMinimum(a, stripe_size, memory_mb, sub_mbytes, n_buckets) ==
    IF n_buckets > kMaxBuckets
    THEN Rejected(InsufficientMemoryException("Do not have enough memory"))
    ELSE [err |-> NoError,
          params |-> [stripe_size     |-> stripe_size,
                      memory_mb       |-> memory_mb,
                      sub_mbytes      |-> sub_mbytes,
                      num_buckets     |-> n_buckets,
                      log_num_buckets |-> FloorLog2(n_buckets)]]

\* The checks of lines 102-127; n_buckets is the num_buckets of lines
\* 95-100.
ValidateBuckets(a, stripe_size, memory_mb, sub_mbytes, n_buckets) ==
    IF n_buckets < kMinBuckets /\ a.num_buckets_input # 0
    THEN Rejected(InvalidValueException("Minimum buckets is 16"))
    ELSE IF n_buckets >= kMinBuckets /\ n_buckets > kMaxBuckets
    THEN IF a.num_buckets_input # 0
         THEN Rejected(InvalidValueException("Maximum buckets is 128"))
         ELSE Rejected(InsufficientMemoryException("Do not have enough memory"))
    ELSE IF ScaledLess(13 * MaxTableEntry(a.k), a.k - 2,
                       75 * stripe_size * Max(n_buckets, kMinBuckets))
    THEN Rejected(InvalidValueException("Stripe size too large"))
    ELSE IF a.enable_bitfield /\ ~a.have_popcnt
    THEN Rejected(InvalidValueException("Bitfield plotting not supported by CPU"))
    ELSE [err |-> NoError,
          params |-> [stripe_size     |-> stripe_size,
                      memory_mb       |-> memory_mb,
                      sub_mbytes      |-> sub_mbytes,
                      num_buckets     |-> Max(n_buckets, kMinBuckets),
                      log_num_buckets |->
                          FloorLog2(Max(n_buckets, kMinBuckets))]]

\* sub_mbytes of lines 81-83: 5 + (int) min(buf_megabytes * 0.05, 50) +
\* thread_memory.
SubMbytes(k, stripe_size, buf_megabytes) ==
    5 + Min(buf_megabytes \div 20, 50)
      + ((2 * (stripe_size + 5000)) * GetMaxEntrySize(k, 4)) \div 1048576

\* Lines 80-100: the memory left for sorting and the bucket count.  ub is
\* the num_buckets an undefined conversion leaves (used when memory_size
\* is 0 and the count is computed).
ValidateMemory(a, stripe_size, buf_megabytes, ub) ==
    LET sub_mbytes == SubMbytes(a.k, stripe_size, buf_megabytes)
    IN  IF sub_mbytes > buf_megabytes
        THEN Rejected(InsufficientMemoryException("Please provide more memory"))
        ELSE ValidateBuckets(a, stripe_size, buf_megabytes - sub_mbytes,
                sub_mbytes,
                IF a.num_buckets_input # 0
                THEN RoundPow2(a.num_buckets_input)
                ELSE IF buf_megabytes - sub_mbytes = 0 THEN ub
                ELSE ComputedNumBuckets(a.k, buf_megabytes - sub_mbytes))

\* Lines 64-74: the defaults of stripe_size and buf_megabytes.
EffectiveStripeSize(a) ==
    IF a.stripe_size_input # 0 THEN a.stripe_size_input ELSE 65536
EffectiveBufMegabytes(a) ==
    IF a.buf_megabytes_input # 0 THEN a.buf_megabytes_input ELSE 4608

\* Validate without the test of lines 76-78.
Validate_NoTenMiB(a, ub) ==
    IF a.k < kMinPlotSize \/ a.k > kMaxPlotSize
    THEN Rejected(InvalidValueException("Plot size k is invalid"))
    ELSE ValidateMemory(a, EffectiveStripeSize(a), EffectiveBufMegabytes(a), ub)

\* Validate with the test of lines 76-78 ahead of the test of lines 60-62.
Validate_MemoryFirst(a, ub) ==
    IF EffectiveBufMegabytes(a) < 10
    THEN Rejected(InsufficientMemoryException(
                      "Please provide at least 10MiB of ram"))
    ELSE IF a.k < kMinPlotSize \/ a.k > kMaxPlotSize
    THEN Rejected(InvalidValueException("Plot size k is invalid"))
    ELSE ValidateMemory(a, EffectiveStripeSize(a), EffectiveBufMegabytes(a), ub)

\* Lines 60-127: the outcome of the checks, and what they derive.
Validate(a, ub) ==
    IF a.k < kMinPlotSize \/ a.k > kMaxPlotSize
    THEN Rejected(InvalidValueException("Plot size k is invalid"))
    ELSE IF EffectiveBufMegabytes(a) < 10
    THEN Rejected(InsufficientMemoryException(
                      "Please provide at least 10MiB of ram"))
    ELSE ValidateMemory(a, EffectiveStripeSize(a), EffectiveBufMegabytes(a), ub)

\* WriteHeader, lines 259-297.
header_text == <<80, 114, 111, 111, 102, 32, 111, 102, 32, 83, 112, 97, 99,
                 101, 32, 80, 108, 111, 116>>
\* pos_constants.hpp: "v1.0".
kFormatDescription == <<118, 49, 46, 48>>
\* Util::IntToTwoBytes: big-endian.
IntToTwoBytes(input) == <<(input \div 256) % 256, input % 256>>
\* write_to_vector_at(vec, pos, data, len): data is stored at pos, the vector
\* growing to hold it; here the vector after the call.
write_to_vector_at(vec, write_pos, data) ==
    [i \in 1 .. Max(Len(vec), write_pos + Len(data)) |->
        IF i > write_pos /\ i <= write_pos + Len(data) THEN data[i - write_pos]
        ELSE IF i <= Len(vec) THEN vec[i] ELSE 0]
Pointers == [i \in 1 .. 80 |-> 0]
WriteHeaderId(plot_vector, id) ==
    write_to_vector_at(plot_vector \o header_text,
                       Len(header_text), id)
\* WriteHeaderFormat with the two length bytes ahead of k.
WriteHeaderFormat_LengthFirst(v, write_pos, k) ==
    write_to_vector_at(
        write_to_vector_at(
            write_to_vector_at(v, write_pos,
                               IntToTwoBytes(Len(kFormatDescription))),
            write_pos + 2, <<k>>),
        write_pos + 3, kFormatDescription)
WriteHeaderFormat(v, write_pos, k) ==
    write_to_vector_at(
        write_to_vector_at(
            write_to_vector_at(v, write_pos, <<k>>),
            write_pos + 1, IntToTwoBytes(Len(kFormatDescription))),
        write_pos + 3, kFormatDescription)
\* The vector after WriteHeader, and the size it returns.
WriteHeader(plot_vector, k, id) ==
    [vector |-> write_to_vector_at(
                    WriteHeaderFormat(WriteHeaderId(plot_vector, id),
                                      Len(header_text) + kIdLen, k),
                    Len(header_text) + kIdLen + 3 + Len(kFormatDescription),
                    Pointers),
     header_size |-> Len(header_text) + kIdLen + 3 + Len(kFormatDescription)
                     + Len(Pointers)]

\* The 32 bytes at id in the reference harness (plot_id_1).
plot_id_1 == <<35, 2, 52, 4, 51, 55, 23, 84, 91, 10, 111, 12, 13, 222, 151, 16,
               228, 211, 254, 45, 92, 198, 204, 10, 9, 10, 11, 129, 139, 171,
               15, 23>>

\* The arguments tried.
PlotKs == {0, 16, 17, 18, 32, 50, 51, 255}
PlotBufMegabytes == {0, 1, 9, 10, 11, 20, 200}
PlotNumBuckets == {0, 1, 15, 16, 17, 100, 128, 129}
PlotStripeSizes == {0, 2000, 200000}
\* id is what the kIdLen bytes at the pointer read as: with id_len = 31 the
\* last of them lies outside the caller's buffer.
PlotArgs ==
    [k : PlotKs, id : {plot_id_1}, id_len : {kIdLen},
     buf_megabytes_input : PlotBufMegabytes,
     num_buckets_input : PlotNumBuckets, stripe_size_input : PlotStripeSizes,
     enable_bitfield : {TRUE}, have_popcnt : BOOLEAN]
    \cup
    [k : PlotKs, id : {plot_id_1, [plot_id_1 EXCEPT ![kIdLen] = 0]},
     id_len : {kIdLen - 1},
     buf_megabytes_input : {11}, num_buckets_input : {0},
     stripe_size_input : {2000},
     enable_bitfield : {TRUE}, have_popcnt : {TRUE}]

PlotInit ==
    /\ plot_args \in PlotArgs
    /\ plot_pc = "validate"
    /\ plot_error = NoError
    /\ plot_params = NoParams
    /\ plot_steps = <<>>
    /\ tmp2_vector = NoVector
    /\ plot_returned = NoVector

PlotIdle ==
    /\ plot_args = [k |-> 17, id |-> plot_id_1, id_len |-> kIdLen,
                    buf_megabytes_input |-> 11,
                    num_buckets_input |-> 0, stripe_size_input |-> 2000,
                    enable_bitfield |-> TRUE, have_popcnt |-> TRUE]
    /\ plot_pc = "validate"
    /\ plot_error = NoError
    /\ plot_params = NoParams
    /\ plot_steps = <<>>
    /\ tmp2_vector = NoVector
    /\ plot_returned = NoVector

\* PlotThrow handing the vector built so far to the caller.
PlotThrow_ReturnsPartial(err) ==
    /\ plot_pc' = "thrown"
    /\ plot_error' = err
    /\ plot_returned' = tmp2_vector
    /\ UNCHANGED <<plot_args, plot_steps, tmp2_vector>>

\* An exception leaves CreatePlotDisk: nothing is returned (the vector, if
\* allocated, is not freed and not handed out).
PlotThrow(err) ==
    /\ plot_pc' = "thrown"
    /\ plot_error' = err
    /\ UNCHANGED <<plot_args, plot_steps, tmp2_vector, plot_returned>>

\* Lines 60-139: the checks, then tmp2_vector = new std::vector<uint8_t>().
PlotValidate ==
    /\ plot_pc = "validate"
    /\ \E ub \in UbNumBuckets :
          IF Validate(plot_args, ub).err # NoError
          THEN PlotThrow(Validate(plot_args, ub).err) /\ UNCHANGED plot_params
          ELSE /\ plot_params' = Validate(plot_args, ub).params
               /\ plot_pc' = "phase1"
               /\ tmp2_vector' = <<>>
               /\ UNCHANGED <<plot_args, plot_error, plot_steps, plot_returned>>
    /\ UNCHANGED <<sortVars, smVars, ffiVars, posVars, fdVars, bdVars,
                 tdVars>>

\* One of RunPhase1 .. RunPhase4 (phase1.hpp .. phase4.hpp, not among the
\* sources): it returns or throws.
PlotRunPhase(pc, next) ==
    /\ plot_pc = pc
    /\ \/ /\ plot_pc' = next
          /\ plot_steps' = Append(plot_steps, pc)
          /\ UNCHANGED <<plot_args, plot_error, tmp2_vector, plot_returned>>
       \/ PlotThrow(InvalidValueException("phase failed"))
    /\ UNCHANGED <<plot_params, sortVars, smVars, ffiVars, posVars, fdVars, bdVars,
                 tdVars>>

\* Lines 141-173: assert(id_len == kIdLen), fatal where asserts are
\* compiled in, then RunPhase1.
PlotPhase1 ==
    \/ /\ plot_pc = "phase1"
       /\ plot_args.id_len # kIdLen
       /\ plot_pc' = "aborted"
       /\ plot_error' = AssertionFailure("id_len == kIdLen")
       /\ UNCHANGED <<plot_args, plot_params, plot_steps, tmp2_vector,
                      plot_returned, sortVars, smVars, ffiVars, posVars, fdVars, bdVars,
                 tdVars>>
    \/ PlotRunPhase("phase1", "phase2")
PlotPhase2 == PlotRunPhase("phase2", "header")
PlotPhase3 == PlotRunPhase("phase3", "phase4")
PlotPhase4 == PlotRunPhase("phase4", "return")

\* WriteHeader(tmp2_vector, k, id), line 200.
PlotWriteHeader ==
    /\ plot_pc = "header"
    /\ plot_pc' = "phase3"
    /\ plot_steps' = Append(plot_steps, "header")
    /\ tmp2_vector' = WriteHeader(tmp2_vector, plot_args.k, plot_args.id).vector
    /\ plot_params' =
          [header_size |->
               WriteHeader(tmp2_vector, plot_args.k, plot_args.id).header_size]
          @@ plot_params
    /\ UNCHANGED <<plot_args, plot_error, plot_returned>>
    /\ UNCHANGED <<sortVars, smVars, ffiVars, posVars, fdVars, bdVars,
                 tdVars>>

\* return tmp2_vector;  line 254.
PlotReturn ==
    /\ plot_pc = "return"
    /\ plot_pc' = "returned"
    /\ plot_returned' = tmp2_vector
    /\ UNCHANGED <<plot_args, plot_error, plot_params, plot_steps, tmp2_vector>>
    /\ UNCHANGED <<sortVars, smVars, ffiVars, posVars, fdVars, bdVars,
                 tdVars>>

\* ------------------------------------------------------------------------
\* The plot tables, the prover and the verifier
\* ------------------------------------------------------------------------
\* phase1.hpp .. phase4.hpp, prover_disk.hpp and verifier.hpp are not among
\* the sources.  They are modelled from the specification (3, 4.2, 4.3,
\* 4.7 - 4.13) on a plot scaled down to PosTables tables of PosK-bit values:
\* a proof holds 2^(PosTables-1) values and the quality selector has
\* PosTables - 2 bits (7 tables, 64 values and 5 bits in the specification);
\* buckets hold PosB * PosC values of y.
PosTables == 3
PosK == 4
PosExtraBits == 1
PosB == 2
PosC == 3

\* F1(k, id, x): a function of the id and x with values of PosK +
\* PosExtraBits bits (ChaCha8 keyed by the id in the specification).
F1(id, x) ==
    (x * x * 3 + x * (2 * id[1] + 5) + 7 * id[1]) % 2 ^ (PosK + PosExtraBits)

\* Fi(i, left_y, left_meta, right_meta): the next y, a function of the
\* tuple (BLAKE3 in the specification); the metadata carried on is the
\* concatenation of the two.
Fx(id, table_index, y_L, meta_L, meta_R) ==
    LET RECURSIVE MetaDigest(_)
        MetaDigest(meta) ==
            IF meta = <<>> THEN 1
            ELSE (MetaDigest(Tail(meta)) * 5 + Head(meta) + 1) % 97
    IN  [y    |-> (y_L * 7 + MetaDigest(meta_L) * 3 + MetaDigest(meta_R) * 11
                   + table_index * 13 + id[1]) % 2 ^ (PosK + PosExtraBits),
         meta |-> meta_L \o meta_R]

\* The match rule (3): adjacent buckets and, for some m, the matching
\* target of the left value.
FindMatch(y_L, y_R) ==
    LET BucketId(y) == y \div (PosB * PosC)
        MatchTarget(parity, y_l_mod, m) ==
            (((y_l_mod \div PosC) + m) % PosB) * PosC
            + (((2 * m + parity) * (2 * m + parity) + y_l_mod) % PosC)
    IN  /\ BucketId(y_R) = BucketId(y_L) + 1
        /\ \E m \in 0 .. (2 ^ PosExtraBits - 1) :
              y_R % (PosB * PosC) =
                  MatchTarget(BucketId(y_L) % 2, y_L % (PosB * PosC), m)

\* Encoding::SquareToLinePoint and LinePointToSquare: a pair x > y as one
\* number, x * (x - 1) / 2 + y, and back.
SquareToLinePoint(a, b) ==
    (Max(a, b) * (Max(a, b) - 1)) \div 2 + Min(a, b)
LinePointToSquare(line_point) ==
    LET RECURSIVE LinePointX(_)
        LinePointX(x) ==
            IF ((x + 1) * x) \div 2 > line_point THEN x ELSE LinePointX(x + 1)
    IN  [first  |-> LinePointX(0),
         second |-> line_point - (LinePointX(0) * (LinePointX(0) - 1)) \div 2]

RECURSIVE Phase1Tables(_, _, _)
\* Phase 1, forward propagation: table 1 holds every x with F1(x), table
\* i + 1 one entry for every matching pair of table i.
\* <<table 1, ..., table i>>  |->  <<table 1, ..., table PosTables>>
Phase1Tables(id, tables, table_index) ==
    IF table_index > PosTables THEN tables
    ELSE Phase1Tables(id,
            Append(tables,
                   {Fx(id, table_index, p[1].y, p[1].meta, p[2].meta) :
                       p \in {q \in tables[table_index - 1]
                                    \X tables[table_index - 1] :
                                 FindMatch(q[1].y, q[2].y)}}),
            table_index + 1)

\* The two halves of an entry's metadata name its left and right parent.
LeftHalf(meta) == SubSeq(meta, 1, Len(meta) \div 2)
RightHalf(meta) == SubSeq(meta, Len(meta) \div 2 + 1, Len(meta))

RECURSIVE LiveEntries(_, _)
\* Phase 2, back-propagation: an entry is live iff an entry of the last
\* table descends from it.  live[i] is the set of live entries of table i.
LiveEntries(live, table_index) ==
    IF table_index = 0 THEN live
    ELSE LiveEntries(
            [live EXCEPT ![table_index] =
                {LeftHalf(m) : m \in live[table_index + 1]}
                \cup {RightHalf(m) : m \in live[table_index + 1]}],
            table_index - 1)

\* Maps are sets of <<key, value>> pairs.
Lookup(map, key) == (CHOOSE p \in map : p[1] = key)[2]

RECURSIVE Phase3Lines(_, _, _, _)
\* Phase 3, compression: the live entries of table i, each as the line
\* point of the positions of its two parents, in line-point order; an
\* entry's position is its rank in that order (for table 1, its x).
Phase3Park(live, table_index, lines, line_point, rank) ==
    Phase3Lines(live, table_index + 1, rank,
        Append(lines,
               [i \in 1 .. Cardinality(rank) |->
                   Lookup(line_point, (CHOOSE p \in rank : p[2] = i - 1)[1])]))
Phase3Rank(live, table_index, lines, line_point) ==
    Phase3Park(live, table_index, lines, line_point,
        {<<p[1], Cardinality({q \in line_point : q[2] < p[2]})>> :
            p \in line_point})
\* lines[i] is table i of the plot: the line points of the entries of
\* phase-1 table i + 1.
Phase3Lines(live, table_index, prev_pos, lines) ==
    IF table_index > PosTables THEN [lines |-> lines, pos |-> prev_pos]
    ELSE Phase3Rank(live, table_index, lines,
            {<<m, SquareToLinePoint(Lookup(prev_pos, LeftHalf(m)),
                                    Lookup(prev_pos, RightHalf(m)))>> :
                m \in live[table_index]})

RECURSIVE Phase4P7(_, _)
\* Phase 4: the entries of the last table by ascending f, those of equal f
\* by ascending position (pos < n).
Phase4P7(S, n) ==
    IF S = {} THEN <<>>
    ELSE <<CHOOSE e \in S : \A o \in S : e.f * n + e.pos <= o.f * n + o.pos>>
         \o Phase4P7(S \ {CHOOSE e \in S :
                              \A o \in S : e.f * n + e.pos <= o.f * n + o.pos},
                     n)

PlotOf(header, compressed, last) ==
    [header |-> header, lines |-> compressed.lines,
     p7 |-> Phase4P7({[f |-> e.y \div 2 ^ PosExtraBits,
                       pos |-> Lookup(compressed.pos, e.meta)] : e \in last},
                     Cardinality(last) + 1)]
PlotFrom(id, tables) ==
    PlotOf(WriteHeader(<<>>, PosK, id).vector,
           Phase3Lines(LiveEntries([i \in 1 .. PosTables |->
                                       IF i = PosTables
                                       THEN {e.meta : e \in tables[i]} ELSE {}],
                                   PosTables - 1),
                       2, {<<<<x>>, x>> : x \in 0 .. (2 ^ PosK - 1)}, <<>>),
           tables[PosTables])
\* The plot of (PosK, id): header, tables of line points, last table.
CreatePlot(id) ==
    PlotFrom(id, Phase1Tables(id,
                    <<{[y |-> F1(id, x), meta |-> <<x>>] :
                          x \in 0 .. (2 ^ PosK - 1)}>>, 2))

\* ---- Prover (4.12)
\* SHA-256 of the challenge and two values: a function that tells its
\* inputs apart.
QualityString(challenge, x_a, x_b) ==
    [challenge |-> challenge, x_a |-> x_a, x_b |-> x_b]

\* The first PosK bits of the challenge, and its last PosTables - 2 bits.
ChallengeF7(challenge) == challenge[0] \div 2 ^ (8 - PosK)
ChallengeSelector(challenge) == challenge[31] % 2 ^ (PosTables - 2)

\* The positions, in the last table of line points, of the entries whose
\* f is that of the challenge.
GetP7Entries(plot, challenge) ==
    LET RECURSIVE SelectF7(_)
        SelectF7(p7) ==
            IF p7 = <<>> THEN <<>>
            ELSE IF Head(p7).f = ChallengeF7(challenge)
            THEN <<Head(p7).pos>> \o SelectF7(Tail(p7))
            ELSE SelectF7(Tail(p7))
    IN  SelectF7(plot.p7)

ReadLinePoint(plot, table_index, position) ==
    LinePointToSquare(plot.lines[table_index][position + 1])

RECURSIVE QualityDescent(_, _, _, _)
\* From table table_index down to table 2 the selector's bit
\* table_index - 2 picks the smaller (0) or the larger (1) position; the
\* two values of table 1 found there are hashed, the smaller first.
QualityDescent(plot, challenge, table_index, position) ==
    IF table_index = 1
    THEN QualityString(challenge,
                       ReadLinePoint(plot, 1, position).second,
                       ReadLinePoint(plot, 1, position).first)
    ELSE QualityDescent(plot, challenge, table_index - 1,
            IF (ChallengeSelector(challenge) \div 2 ^ (table_index - 2)) % 2 = 0
            THEN ReadLinePoint(plot, table_index, position).second
            ELSE ReadLinePoint(plot, table_index, position).first)

GetQualitiesForChallenge(plot, challenge) ==
    [i \in 1 .. Len(GetP7Entries(plot, challenge)) |->
        QualityDescent(plot, challenge, PosTables - 1,
                       GetP7Entries(plot, challenge)[i])]

RECURSIVE GetInputs(_, _, _)
\* The values below an entry in plot order: those of its smaller position
\* before those of its larger one.
GetInputs(plot, position, depth) ==
    IF depth = 1
    THEN <<ReadLinePoint(plot, 1, position).second,
           ReadLinePoint(plot, 1, position).first>>
    ELSE GetInputs(plot, ReadLinePoint(plot, depth, position).second, depth - 1)
         \o GetInputs(plot, ReadLinePoint(plot, depth, position).first,
                      depth - 1)

RECURSIVE ReorderLevels(_, _, _)
\* Plot order to proof order, level by level: of two neighbours the one
\* of smaller y is the left parent.
ReorderLevels(id, table_index, results) ==
    IF Len(results) = 1 THEN results[1].meta
    ELSE ReorderLevels(id, table_index + 1,
            [j \in 1 .. Len(results) \div 2 |->
                IF results[2 * j - 1].y < results[2 * j].y
                THEN Fx(id, table_index, results[2 * j - 1].y,
                        results[2 * j - 1].meta, results[2 * j].meta)
                ELSE Fx(id, table_index, results[2 * j].y,
                        results[2 * j].meta, results[2 * j - 1].meta)])
ReorderProof(id, xs) ==
    ReorderLevels(id, 2, [i \in 1 .. Len(xs) |->
                             [y |-> F1(id, xs[i]), meta |-> <<xs[i]>>]])

RECURSIVE BitsValue(_, _, _, _)
\* The number that bits from .. from + n - 1 of b spell, most significant
\* first (bits past the end read 0).
BitsValue(b, len, from, n) ==
    IF n = 0 THEN 0
    ELSE 2 * BitsValue(b, len, from, n - 1)
         + (IF from + n - 1 < len THEN b[from + n - 1] ELSE 0)
\* The bytes of a proof: the values, PosK bits each, most significant bit
\* first, the last byte padded with zero bits.
ToBytes(xs) ==
    [i \in 1 .. (Len(xs) * PosK + 7) \div 8 |->
        BitsValue([n \in 0 .. (Len(xs) * PosK - 1) |->
                      (xs[(n \div PosK) + 1] \div 2 ^ (PosK - 1 - (n % PosK))) % 2],
                  Len(xs) * PosK, (i - 1) * 8, 8)]
\* count values of PosK bits from bytes.
FromBytes(bytes, count) ==
    [i \in 1 .. count |->
        BitsValue([n \in 0 .. (Len(bytes) * 8 - 1) |->
                      (bytes[(n \div 8) + 1] \div 2 ^ (7 - (n % 8))) % 2],
                  Len(bytes) * 8, (i - 1) * PosK, PosK)]

\* Prover::GetFullProof(challenge, index): throws when there is no such
\* proof.  The id is read in the header of the plot.
GetFullProof(plot, challenge, index) ==
    IF index >= Len(GetP7Entries(plot, challenge)) THEN Thrown
    ELSE Returned(ToBytes(ReorderProof(
            SubSeq(plot.header, Len(header_text) + 1, Len(header_text) + kIdLen),
            GetInputs(plot, GetP7Entries(plot, challenge)[index + 1],
                      PosTables - 1))))

\* ---- Verifier (4.13)
\* CompareProofBits with the values compared from the first on.
CompareProofBits_FromFront(left, right) ==
    \E i \in 1 .. Len(left) :
        /\ left[i] < right[i]
        /\ \A j \in 1 .. (i - 1) : left[j] = right[j]

\* CompareProofBits: left is below right, the values compared from the last
\* to the first.
CompareProofBits(left, right) ==
    \E i \in 1 .. Len(left) :
        /\ left[i] < right[i]
        /\ \A j \in (i + 1) .. Len(left) : left[j] = right[j]

RECURSIVE PlotOrder(_, _)
\* Proof order to plot order: level by level, of two neighbouring runs of
\* size values the lower goes first.
PlotOrder(proof, size) ==
    LET RECURSIVE PlotOrderRuns(_)
        PlotOrderRuns(rest) ==
            IF rest = <<>> THEN <<>>
            ELSE (IF CompareProofBits(SubSeq(rest, 1, size),
                                      SubSeq(rest, size + 1, 2 * size))
                  THEN SubSeq(rest, 1, 2 * size)
                  ELSE SubSeq(rest, size + 1, 2 * size) \o SubSeq(rest, 1, size))
                 \o PlotOrderRuns(SubSeq(rest, 2 * size + 1, Len(rest)))
    IN  IF size >= Len(proof) THEN proof
        ELSE PlotOrder(PlotOrderRuns(proof), 2 * size)

\* The two values at quality_index of the proof in plot order, hashed.
GetQualityString(proof, quality_index, challenge) ==
    QualityString(challenge, PlotOrder(proof, 1)[quality_index + 1],
                  PlotOrder(proof, 1)[quality_index + 2])

RECURSIVE ValidateLevels(_, _, _)
\* Folds the entries pair by pair; <<>> when a pair is no match.
ValidateLevels(id, table_index, entries) ==
    IF Len(entries) = 1 THEN entries
    ELSE IF \E j \in 1 .. Len(entries) \div 2 :
                ~FindMatch(entries[2 * j - 1].y, entries[2 * j].y)
    THEN <<>>
    ELSE ValidateLevels(id, table_index + 1,
            [j \in 1 .. Len(entries) \div 2 |->
                Fx(id, table_index, entries[2 * j - 1].y,
                   entries[2 * j - 1].meta, entries[2 * j].meta)])

ValidateFolded(folded, xs, challenge) ==
    IF folded = <<>> THEN EmptyBits
    ELSE IF folded[1].y \div 2 ^ PosExtraBits # ChallengeF7(challenge)
    THEN EmptyBits
    ELSE GetQualityString(xs, 2 * ChallengeSelector(challenge), challenge)
\* Verifier::ValidateProof(id, k, challenge, proof_bytes, proof_size): the
\* quality, or EmptyBits.
ValidateProof(id, challenge, proof_bytes) ==
    IF Len(proof_bytes) # (2 ^ (PosTables - 1) * PosK + 7) \div 8
    THEN EmptyBits
    ELSE ValidateFolded(
            ValidateLevels(id, 2,
                [i \in 1 .. 2 ^ (PosTables - 1) |->
                    [y |-> F1(id, FromBytes(proof_bytes,
                                            2 ^ (PosTables - 1))[i]),
                     meta |-> <<FromBytes(proof_bytes,
                                          2 ^ (PosTables - 1))[i]>>]]),
            FromBytes(proof_bytes, 2 ^ (PosTables - 1)), challenge)

\* One iteration of the loops of TestProofOfSpace, lines 736-756: the
\* qualities, the proof of quality index, its validation, and the validation
\* of the proof with its first byte incremented.
TestValidate(id, challenge, index, qualities, proof_data) ==
    [challenge  |-> challenge,
     index      |-> index,
     qualities  |-> qualities,
     proof_data |-> proof_data,
     quality    |-> ValidateProof(id, challenge, proof_data),
     quality_2  |-> ValidateProof(id, challenge,
                        [proof_data EXCEPT ![1] = (@ + 1) % 256])]
TestIteration(plot, id, challenge, index) ==
    TestValidate(id, challenge, index,
                 GetQualitiesForChallenge(plot, challenge),
                 GetFullProof(plot, challenge, index).val)

\* The ids and the challenges tried: the first and the last byte of a
\* challenge vary, the others are 0.
PosIds == {[plot_id_1 EXCEPT ![1] = b] : b \in 0 .. 15}
PosChallenges ==
    {[i \in 0 .. 31 |-> IF i = 0 THEN first ELSE IF i = 31 THEN last ELSE 0] :
        first \in {16 * f : f \in 0 .. 15} \cup {255}, last \in {0, 1, 251}}

NoPlot == [none |-> TRUE]
NoTest == [none |-> TRUE]

\* PlotAndTestProofOfSpace: the plot of the id, no challenge tried yet.
PosInit ==
    /\ pos_id \in PosIds
    /\ pos_plot = CreatePlot(pos_id)
    /\ pos_test = NoTest

PosIdle ==
    /\ pos_id = plot_id_1
    /\ pos_plot = NoPlot
    /\ pos_test = NoTest

\* TestProofOfSpace: one challenge and one of its qualities.
TestProofOfSpace ==
    /\ \E challenge \in PosChallenges :
          \E index \in 0 .. (Len(GetP7Entries(pos_plot, challenge)) - 1) :
              pos_test' = TestIteration(pos_plot, pos_id, challenge, index)
    /\ UNCHANGED <<pos_id, pos_plot, sortVars, smVars, ffiVars, plotVars,
                   fdVars, bdVars,
                 tdVars>>

\* ------------------------------------------------------------------------
\* FilteredDisk over a BufferedDisk (src/unnamed/part_000, 436-523; the copy
\* of lines 589-670 is the same without Write)
\* ------------------------------------------------------------------------
NoBytes == <<>>
FdEntrySizes == {1, 3}

\* The byte a fresh disk holds at an offset: no two offsets within reach
\* hold the same byte.
DiskByte(offset) == (37 * offset + 11) % 256

FdFilters == UNION {[1 .. n -> BOOLEAN] : n \in 0 .. MaxFilterBits}

\* The number of set bits of a filter.
PopCount(filter) == Cardinality({i \in 1 .. Len(filter) : filter[i]})

\* The index (bit 0 first) of the n-th set bit of a filter, n >= 1.
NthSetBit(filter, n) ==
    CHOOSE i \in 0 .. Len(filter) - 1 :
        /\ filter[i + 1]
        /\ Cardinality({h \in 0 .. i : filter[h + 1]}) = n

\* bitfield::get can answer for the bits the filter holds; past them (or
\* with the filter freed) the call reads outside the bitfield.
InFilter(filter, bit) == bit < Len(filter)

FdState ==
    [filter |-> filter_, underlying |-> underlying_, physical |-> last_physical_,
     logical |-> last_logical_, idx |-> last_idx_, err |-> "none"]

FdSet(st) ==
    /\ filter_' = st.filter
    /\ underlying_' = st.underlying
    /\ last_physical_' = st.physical
    /\ last_logical_' = st.logical
    /\ last_idx_' = st.idx
    /\ fd_error' = st.err
    /\ UNCHANGED fd_entry_size

FdSkipUnset_NoSkip(es, st) == st

RECURSIVE FdSkipUnset(_, _)
\* while (!filter_.get(last_idx_)) { last_physical_ += entry_size_; ++last_idx_; }
FdSkipUnset(es, st) ==
    IF ~InFilter(st.filter, st.idx) THEN [st EXCEPT !.err = "undefined"]
    ELSE IF st.filter[st.idx + 1] THEN st
    ELSE FdSkipUnset(es, [st EXCEPT !.physical = @ + es, !.idx = @ + 1])

RECURSIVE FdAdvance(_, _, _)
\* while (begin > last_logical_) { if (filter_.get(last_idx_)) last_logical_
\* += entry_size_; last_physical_ += entry_size_; ++last_idx_; }
FdAdvance(es, begin, st) ==
    IF ~(begin > st.logical) THEN st
    ELSE IF ~InFilter(st.filter, st.idx) THEN [st EXCEPT !.err = "undefined"]
    ELSE FdAdvance(es, begin,
             [st EXCEPT !.logical = IF st.filter[st.idx + 1] THEN @ + es ELSE @,
                        !.physical = @ + es,
                        !.idx = @ + 1])

\* The body of FilteredDisk::Read between the two groups of asserts.
FdSeek(es, begin, st) ==
    IF begin > st.logical
    THEN LET a == FdAdvance(es, begin,
                      [st EXCEPT !.logical = @ + es, !.physical = @ + es,
                                 !.idx = @ + 1])
         IN IF a.err # "none" THEN a ELSE FdSkipUnset(es, a)
    ELSE st

\* BufferedDisk::Read for a reader that never goes back: the bytes of the
\* disk from begin on; the buffer is not refilled past the end of the disk,
\* what it holds there (-1) is left over.
BufferedRead(disk, begin, length) ==
    [i \in 1 .. length |-> IF begin + i <= Len(disk) THEN disk[begin + i] ELSE -1]

\* FilteredDisk::Read(begin, length) in a build that keeps the asserts
\* (asserts = TRUE) or drops them.  filter_.get(last_idx_) is evaluated at
\* entry by the assert only.
FdReadEntry(es, begin, length, st, asserts) ==
    LET moved == FdSeek(es, begin, st)
        entry_asserts ==
            /\ begin >= st.logical
            /\ begin % es = 0
            /\ InFilter(st.filter, st.idx) /\ st.filter[st.idx + 1]
            /\ st.physical = st.idx * es
        exit_asserts ==
            /\ InFilter(moved.filter, moved.idx) /\ moved.filter[moved.idx + 1]
            /\ moved.physical = moved.idx * es
            /\ begin = moved.logical
    IN
    IF asserts /\ ~entry_asserts
    THEN [st |-> [st EXCEPT !.err = IF InFilter(st.filter, st.idx)
                                    THEN "Unreachable: assert"
                                    ELSE "undefined"],
          ret |-> NoBytes]
    ELSE IF moved.err # "none" THEN [st |-> moved, ret |-> NoBytes]
    ELSE IF asserts /\ ~exit_asserts
    THEN [st |-> [moved EXCEPT !.err = "Unreachable: assert"], ret |-> NoBytes]
    ELSE [st |-> moved, ret |-> BufferedRead(moved.underlying, moved.physical, length)]

\* A disk of one entry for every bit of the filter.
FdFreshDisk(filter, es) == [o \in 1 .. Len(filter) * es |-> DiskByte(o - 1)]

\* FilteredDisk::FilteredDisk(underlying, filter, entry_size) has returned.
FdConstructed(filter, es) ==
    LET st == FdSkipUnset(es, [filter |-> filter,
                               underlying |-> FdFreshDisk(filter, es),
                               physical |-> 0, logical |-> 0, idx |-> 0,
                               err |-> "none"])
    IN
    /\ fd_entry_size = es
    /\ filter_ = st.filter
    /\ underlying_ = st.underlying
    /\ last_physical_ = st.physical
    /\ last_logical_ = st.logical
    /\ last_idx_ = st.idx
    /\ fd_error = st.err
    /\ fd_call = NoCall
    /\ fd_ret = NoBytes

\* A FilteredDisk after construction, for every bounded filter.
FdInit == \E filter \in FdFilters, es \in FdEntrySizes : FdConstructed(filter, es)

\* One FilteredDisk that only its own calls change.
FdIdle == FdConstructed(<<FALSE, TRUE, TRUE>>, 2)

FdAlive == fd_error \notin {"undefined", "Unreachable: assert"}

FdCall(op, arg, st, ret) ==
    /\ FdSet(st)
    /\ fd_ret' = ret
    /\ fd_call' = [op |-> op, arg |-> arg, before |-> FdState]
    /\ UNCHANGED <<sortVars, smVars, ffiVars, plotVars, posVars, bdVars, tdVars>>

\* FilteredDisk::Read(begin, entry_size_), begin an offset of the disk or
\* its end.
FdRead ==
    /\ FdAlive
    /\ \E begin \in 0 .. Len(underlying_), asserts \in BOOLEAN :
          LET r == FdReadEntry(fd_entry_size, begin, fd_entry_size, FdState, asserts)
          IN FdCall("Read", begin, r.st, r.ret)

\* FilteredDisk::Write: assert(false), then the throw.
FdWrite ==
    /\ FdAlive
    /\ \E begin \in {0, fd_entry_size},
          e \in {"Unreachable: assert",
                 "runtime_error: Write() called on read-only disk abstraction"} :
          FdCall("Write", begin, [FdState EXCEPT !.err = e], NoBytes)

\* FilteredDisk::Truncate(new_size): BufferedDisk::Truncate resizes the disk
\* (new bytes are zero); Truncate(0) frees the filter.
FdTruncate ==
    /\ FdAlive
    /\ \E new_size \in {0, fd_entry_size} :
          FdCall("Truncate", new_size,
                 [FdState EXCEPT
                     !.underlying = [o \in 1 .. new_size |->
                                        IF o <= Len(@) THEN @[o] ELSE 0],
                     !.filter = IF new_size = 0 THEN <<>> ELSE @],
                 NoBytes)

\* FilteredDisk::FreeMemory: the filter and the buffers of the BufferedDisk.
FdFreeMemory ==
    /\ FdAlive
    /\ FdCall("FreeMemory", 0, [FdState EXCEPT !.filter = <<>>], NoBytes)

\* ------------------------------------------------------------------------
\* BufferedDisk, the cached variant (disk.hpp): a byte vector behind a
\* read-ahead buffer and a buffer for contiguous writes
\* ------------------------------------------------------------------------
\* read_ahead and write_cache are 1 MiB in the source; the buffers are
\* scaled down with the disk.  HeadRoom is the 7 bytes SliceInt64FromBytes
\* may overrun.
HeadRoom == 7
read_ahead == 9
write_cache == 1
BdFileSize == 3
MaxBdLength == 2
MaxBdWrites == 2

BdState ==
    [disk |-> disk_, file_size |-> file_size_,
     rstart |-> read_buffer_start_, rbuf |-> read_buffer_,
     rsize |-> read_buffer_size_,
     wstart |-> write_buffer_start_, wbuf |-> write_buffer_,
     wsize |-> write_buffer_size_]

BdSet(st) ==
    /\ disk_' = st.disk
    /\ file_size_' = st.file_size
    /\ read_buffer_start_' = st.rstart
    /\ read_buffer_' = st.rbuf
    /\ read_buffer_size_' = st.rsize
    /\ write_buffer_start_' = st.wstart
    /\ write_buffer_' = st.wbuf
    /\ write_buffer_size_' = st.wsize

\* length bytes of a vector from offset begin (offset 0 is element 1).
VectorBytes(v, begin, length) ==
    [i \in 1 .. length |-> IF begin + i <= Len(v) THEN v[begin + i] ELSE Garbage]

\* std::memcpy(v.data() + begin, data, Len(data)) into a vector.
VectorCopy(v, begin, data) ==
    [o \in 1 .. Len(v) |->
        IF o > begin /\ o <= begin + Len(data) THEN data[o - begin] ELSE v[o]]

\* The same into a buffer (a function over the offsets 0 .. size - 1).
BufferCopy(buf, at, data) ==
    [o \in DOMAIN buf |->
        IF o >= at /\ o < at + Len(data) THEN data[o - at + 1] ELSE buf[o]]

\* length bytes of a buffer from offset at.
BufferBytes(buf, at, length) ==
    [i \in 1 .. length |->
        IF at + i - 1 \in DOMAIN buf THEN buf[at + i - 1] ELSE Garbage]

\* new uint8_t[n]: n uninitialised bytes.
NewBuffer(n) == [o \in 0 .. n - 1 |-> Garbage]

NeedReadCache(st) ==
    IF st.rbuf # NoBuffer THEN st
    ELSE [st EXCEPT !.rbuf = NewBuffer(read_ahead), !.rstart = -1, !.rsize = 0]

NeedWriteCache(st) ==
    IF st.wbuf # NoBuffer THEN st
    ELSE [st EXCEPT !.wbuf = NewBuffer(write_cache), !.wstart = -1, !.wsize = 0]

BufferedDisk_FlushCache(st) ==
    IF st.wsize = 0 THEN st
    ELSE [st EXCEPT
            !.disk = VectorCopy(@, st.wstart, BufferBytes(st.wbuf, 0, st.wsize)),
            !.wsize = 0]

BufferedDisk_FreeMemory(st) ==
    [BufferedDisk_FlushCache(st) EXCEPT
        !.rbuf = NoBuffer, !.wbuf = NoBuffer, !.rsize = 0, !.wsize = 0]

BufferedDisk_Truncate(st, new_size) ==
    LET f == BufferedDisk_FlushCache(st)
    IN BufferedDisk_FreeMemory(
           [f EXCEPT !.disk = [o \in 1 .. new_size |->
                                  IF o <= Len(@) THEN @[o] ELSE 0],
                     !.file_size = new_size])

\* A refill in place of the copy through temp.
ReadBranch_AlwaysRefill(st, begin, length) ==
    IF /\ st.rstart # -1
       /\ st.rstart <= begin
       /\ st.rstart + st.rsize >= begin + length
       /\ st.rstart + read_ahead >= begin + length + HeadRoom
    THEN "inside"
    ELSE "refill"

\* The branch Read takes, on the fields after NeedReadCache.  An unsigned
\* read_buffer_start_ of -1 is above every begin.
ReadBranch(st, begin, length) ==
    IF /\ st.rstart # -1
       /\ st.rstart <= begin
       /\ st.rstart + st.rsize >= begin + length
       /\ st.rstart + read_ahead >= begin + length + HeadRoom
    THEN "inside"
    ELSE IF (st.rstart # -1 /\ begin >= st.rstart) \/ begin = 0 \/ st.rstart = -1
    THEN "refill"
    ELSE "temp"

\* BufferedDisk::Read(begin, length), length < read_ahead: the fields after
\* the call and the length bytes behind the pointer returned.
BufferedDisk_Read(st, begin, length) ==
    LET s1 == NeedReadCache(st)
        branch == ReadBranch(s1, begin, length)
    IN  IF branch = "inside"
        THEN [st |-> s1,
              ret |-> BufferBytes(s1.rbuf, begin - s1.rstart, length)]
        ELSE IF branch = "refill"
        THEN LET amount_to_read == Min(s1.file_size - begin, read_ahead)
                 buf == BufferCopy(s1.rbuf, 0,
                            VectorBytes(s1.disk, begin, amount_to_read))
             IN [st |-> [s1 EXCEPT !.rstart = begin, !.rbuf = buf,
                                   !.rsize = amount_to_read],
                 ret |-> BufferBytes(buf, 0, length)]
        ELSE [st |-> s1, ret |-> VectorBytes(s1.disk, begin, length)]

\* BufferedDisk::Write(begin, memcache, length), data the length bytes of
\* memcache.
BufferedDisk_Write(st, begin, data) ==
    LET s1 == NeedWriteCache(st)
        length == Len(data)
        contiguous == s1.wstart # -1 /\ begin = s1.wstart + s1.wsize
    IN  IF contiguous /\ s1.wsize + length <= write_cache
        THEN [s1 EXCEPT !.wbuf = BufferCopy(@, s1.wsize, data),
                        !.wsize = @ + length]
        ELSE LET s2 == IF contiguous THEN BufferedDisk_FlushCache(s1) ELSE s1
             IN  IF s2.wsize = 0 /\ write_cache >= length
                 THEN [s2 EXCEPT !.wstart = begin,
                                 !.wbuf = BufferCopy(@, 0, data),
                                 !.wsize = length]
                 ELSE [s2 EXCEPT !.disk = VectorCopy(@, begin, data)]

\* BufferedDisk(disk, file_size) over a vector of file_size zero bytes.
BdConstructed(file_size) ==
    /\ disk_ = [o \in 1 .. file_size |-> 0]
    /\ file_size_ = file_size
    /\ read_buffer_start_ = -1
    /\ read_buffer_ = NoBuffer
    /\ read_buffer_size_ = 0
    /\ write_buffer_start_ = -1
    /\ write_buffer_ = NoBuffer
    /\ write_buffer_size_ = 0
    /\ bd_plain = [o \in 1 .. file_size |-> 0]
    /\ bd_nwrites = 0
    /\ bd_call = NoCall
    /\ bd_ret = NoBytes

BdInit == BdConstructed(BdFileSize)

\* One BufferedDisk that only its own calls change.
BdIdle == BdConstructed(BdFileSize)

BdCall(op, begin, length, st, ret) ==
    /\ BdSet(st)
    /\ bd_ret' = ret
    /\ bd_call' = [op |-> op, begin |-> begin, length |-> length]
    /\ UNCHANGED <<sortVars, smVars, ffiVars, plotVars, posVars, fdVars, tdVars>>

\* Read(begin, length) of bytes inside the file.
BdRead ==
    \E begin \in 0 .. file_size_ - 1, length \in 1 .. MaxBdLength :
        /\ begin + length <= file_size_
        /\ length < read_ahead
        /\ LET r == BufferedDisk_Read(BdState, begin, length)
           IN BdCall("Read", begin, length, r.st, r.ret)
        /\ UNCHANGED <<bd_plain, bd_nwrites>>

\* Write(begin, memcache, length) of bytes inside the file; the n-th Write
\* writes bytes of value n.
BdWrite ==
    /\ bd_nwrites < MaxBdWrites
    /\ \E begin \in 0 .. file_size_ - 1, length \in 1 .. MaxBdLength :
        /\ begin + length <= file_size_
        /\ LET data == [i \in 1 .. length |-> bd_nwrites + 1]
           IN /\ BdCall("Write", begin, length,
                        BufferedDisk_Write(BdState, begin, data), NoBytes)
              /\ bd_plain' = VectorCopy(bd_plain, begin, data)
        /\ bd_nwrites' = bd_nwrites + 1

BdFlushCache ==
    /\ BdCall("FlushCache", 0, 0, BufferedDisk_FlushCache(BdState), NoBytes)
    /\ UNCHANGED <<bd_plain, bd_nwrites>>

BdFreeMemory ==
    /\ BdCall("FreeMemory", 0, 0, BufferedDisk_FreeMemory(BdState), NoBytes)
    /\ UNCHANGED <<bd_plain, bd_nwrites>>

BdTruncate ==
    \E new_size \in {0, BdFileSize} :
        /\ BdCall("Truncate", new_size, 0,
                  BufferedDisk_Truncate(BdState, new_size), NoBytes)
        /\ bd_plain' = [o \in 1 .. new_size |->
                           IF o <= Len(bd_plain) THEN bd_plain[o] ELSE 0]
        /\ UNCHANGED bd_nwrites

\* ------------------------------------------------------------------------
\* BufferedDisk::Read through `static uint8_t temp[128]` (disk.hpp, the
\* uncached variant, and the backward branch of the cached one): two
\* BufferedDisk objects and a FilteredDisk over a third, each with its own
\* vector, and the one temp the function has
\* ------------------------------------------------------------------------
TempSize == 128
TdFileSize == 3
MaxTdLength == 2

TdPlain == {"a", "b"}
TdObjects == TdPlain \cup {"f"}
TdFilter == <<FALSE, TRUE, TRUE>>
NoHeld == [length |-> 0, bytes |-> <<>>]

\* std::memcpy(temp, disk_->data() + begin, length); return temp: the bytes
\* of temp after the call.
TempRead(tmp, disk, begin, length) ==
    [i \in 1 .. Len(tmp) |->
        IF i <= length THEN VectorBytes(disk, begin, length)[i] ELSE tmp[i]]

\* What a caller finds behind a pointer to temp.
TempBytes(tmp, length) == SubSeq(tmp, 1, length)

TdInit ==
    /\ temp = [i \in 1 .. TempSize |-> 0]
    /\ td_vector = [x \in TdPlain |->
                      [o \in 1 .. TdFileSize |->
                          DiskByte(o + (IF x = "a" THEN 10 ELSE 20))]]
    /\ td_filtered = FdSkipUnset(1, [filter |-> TdFilter,
                                     underlying |-> FdFreshDisk(TdFilter, 1),
                                     physical |-> 0, logical |-> 0, idx |-> 0,
                                     err |-> "none"])
    /\ td_held = [x \in TdObjects |-> NoHeld]
    /\ td_call = NoCall

TdOthers == <<sortVars, smVars, ffiVars, plotVars, posVars, fdVars, bdVars>>

\* BufferedDisk::Read(begin, length) on a or b, inside the vector.
TdRead ==
    \E x \in TdPlain, begin \in 0 .. TdFileSize - 1, length \in 1 .. MaxTdLength :
        /\ begin + length <= Len(td_vector[x])
        /\ length <= TempSize - HeadRoom
        /\ temp' = TempRead(temp, td_vector[x], begin, length)
        /\ td_held' = [td_held EXCEPT ![x] =
                          [length |-> length, bytes |-> TempBytes(temp', length)]]
        /\ td_call' = [op |-> "Read", obj |-> x, begin |-> begin]
        /\ UNCHANGED <<td_vector, td_filtered, TdOthers>>

\* FilteredDisk::Read(begin, entry_size_) on f, forward and inside the
\* filter: return underlying_.Read(last_physical_, length).
TdFilteredRead ==
    \E begin \in 0 .. PopCount(TdFilter) - 1 :
        /\ begin >= td_filtered.logical
        /\ LET r == FdReadEntry(1, begin, 1, td_filtered, TRUE)
           IN /\ r.st.err = "none"
              /\ td_filtered' = r.st
              /\ temp' = TempRead(temp, r.st.underlying, r.st.physical, 1)
        /\ td_held' = [td_held EXCEPT !["f"] =
                          [length |-> 1, bytes |-> TempBytes(temp', 1)]]
        /\ td_call' = [op |-> "Read", obj |-> "f", begin |-> begin]
        /\ UNCHANGED <<td_vector, TdOthers>>

\* BufferedDisk::Truncate(new_size) on a or b: disk_->resize(new_size).
TdTruncate ==
    \E x \in TdPlain, new_size \in {0, TdFileSize} :
        /\ td_vector' = [td_vector EXCEPT ![x] =
                            [o \in 1 .. new_size |->
                                IF o <= Len(@) THEN @[o] ELSE 0]]
        /\ td_call' = [op |-> "Truncate", obj |-> x, begin |-> new_size]
        /\ UNCHANGED <<temp, td_filtered, td_held, TdOthers>>

\* BufferedDisk::FreeMemory() on a or b does nothing.
TdFreeMemory ==
    \E x \in TdPlain :
        /\ td_call' = [op |-> "FreeMemory", obj |-> x, begin |-> 0]
        /\ UNCHANGED <<temp, td_vector, td_filtered, td_held, TdOthers>>

\* ------------------------------------------------------------------------
\* Specifications
\* ------------------------------------------------------------------------
\* SortToMemory on every bounded input.
SpecSortInit == SortInit /\ SmIdle /\ FfiInit /\ PlotIdle /\ PosIdle /\ FdIdle /\ BdIdle /\ TdInit
SpecSortNext == SortCall
SpecSort == SpecSortInit /\ [][SpecSortNext]_vars

\* A SortManager filled by AddToCache and then read front to back.
SpecSeqInit == SortIdle /\ SmInit /\ FfiInit /\ PlotIdle /\ PosIdle /\ FdIdle /\ BdIdle /\ TdInit
SpecSeqNext == (\E e \in SmEntries : AddToCache(e)) \/ SeqRead
SpecSeq == SpecSeqInit /\ [][SpecSeqNext]_vars

\* A SortManager filled by AddToCache and then called in any order.
SpecSmInit == SortIdle /\ SmInit /\ FfiInit /\ PlotIdle /\ PosIdle /\ FdIdle /\ BdIdle /\ TdInit
SpecSmNext ==
    \/ \E e \in SmFewEntries : Len(sm_added) < MaxCalledAdded /\ AddToCache(e)
    \/ Read
    \/ TriggerNewBucket
    \/ FlushCache
    \/ FreeMemory
    \/ Truncate
    \/ Write
SpecSm == SpecSmInit /\ [][SpecSmNext]_vars

\* Calls of the entry points, in any order.
SpecFfiInit == SortIdle /\ SmIdle /\ FfiInit /\ PlotIdle /\ PosIdle /\ FdIdle /\ BdIdle /\ TdInit
SpecFfiNext ==
    \/ subspace_chiapos_find_quality
    \/ subspace_chiapos_create_proof
    \/ subspace_chiapos_is_proof_valid
SpecFfi == SpecFfiInit /\ [][SpecFfiNext]_vars

\* One call of CreatePlotDisk for every argument tuple tried.
SpecPlotInit == SortIdle /\ SmIdle /\ FfiInit /\ PlotInit /\ PosIdle /\ FdIdle /\ BdIdle /\ TdInit
SpecPlotNext ==
    \/ PlotValidate
    \/ PlotPhase1
    \/ PlotPhase2
    \/ PlotWriteHeader
    \/ PlotPhase3
    \/ PlotPhase4
    \/ PlotReturn
SpecPlot == SpecPlotInit /\ [][SpecPlotNext]_vars

\* The reference harness on the plot of every id tried.
SpecPosInit == SortIdle /\ SmIdle /\ FfiInit /\ PlotIdle /\ PosInit /\ FdIdle /\ BdIdle /\ TdInit
SpecPosNext == TestProofOfSpace
SpecPos == SpecPosInit /\ [][SpecPosNext]_vars

\* The read-only disks: a SortManager and a FilteredDisk, called in any order.
SpecRoInit == SortIdle /\ SmInit /\ FfiInit /\ PlotIdle /\ PosIdle /\ FdIdle /\ BdIdle /\ TdInit
SpecRoNext ==
    \/ \E e \in SmFewEntries : Len(sm_added) < MaxRoAdded /\ AddToCache(e)
    \/ Read
    \/ TriggerNewBucket
    \/ Truncate
    \/ Write
    \/ FdRead
    \/ FdWrite
SpecRo == SpecRoInit /\ [][SpecRoNext]_vars

\* A FilteredDisk over every bounded filter, called in any order.
SpecFdInit == SortIdle /\ SmIdle /\ FfiInit /\ PlotIdle /\ PosIdle /\ FdInit /\ BdIdle /\ TdInit
SpecFdNext == FdRead \/ FdWrite \/ FdTruncate \/ FdFreeMemory
SpecFd == SpecFdInit /\ [][SpecFdNext]_vars

\* BufferedDisk (cached variant): reads, writes and flushes inside the file.
SpecBdInit == SortIdle /\ SmIdle /\ FfiInit /\ PlotIdle /\ PosIdle /\ FdIdle /\ BdInit /\ TdInit
SpecBdNext == BdRead \/ BdWrite \/ BdFlushCache \/ BdFreeMemory \/ BdTruncate
SpecBd == SpecBdInit /\ [][SpecBdNext]_vars

\* Reads of several disk objects through the one static temp.
SpecTempInit == SortIdle /\ SmIdle /\ FfiInit /\ PlotIdle /\ PosIdle /\ FdIdle /\ BdIdle /\ TdInit
SpecTempNext == TdRead \/ TdFilteredRead \/ TdTruncate \/ TdFreeMemory
SpecTemp == SpecTempInit /\ [][SpecTempNext]_vars

\* ------------------------------------------------------------------------
\* Claims
\* ------------------------------------------------------------------------
SortOutput == [i \in 1 .. Len(sort_input) |-> sort_res.memory[i - 1]]

\* C1: for every input of N non-zero entries, SortToMemory leaves in the
\* first N slots of the output region a permutation of the input that is
\* non-decreasing under the bit comparison from bits_begin, and its
\* compaction pass emits exactly N entries (entries_written == num_entries).
C1_SortToMemoryCorrect ==
    sort_res # NoResult =>
        /\ sort_res.entries_written = Len(sort_input)
        /\ SameEntries(SortOutput, sort_input)
        /\ \A i \in 1 .. Len(sort_input) - 1 :
              MemCmpBits(SortOutput[i], SortOutput[i + 1], SortEntryLen,
                         sort_bits_begin) <= 0

\* Every bucket fits in the sort memory (the test of SortBucket, line 227).
BucketsFit ==
    \A i \in 1 .. num_buckets :
        Len(buckets_[i]) <= memory_size_ \div entry_size_

\* C2: when every bucket fits in the sort memory, the reads at positions 0,
\* entry_size, 2*entry_size, ... all succeed and return the added entries,
\* each once, in non-decreasing order of the bits from begin_bits on.
C2_SequentialReadSorted ==
    BucketsFit =>
        /\ sm_ret # NoEntry => sm_error = "none"
        /\ done => sm_error \in {"none", "InvalidValue: already finished"}
        /\ \A i \in 1 .. Len(sm_read_log) - 1 :
              MemCmpBits(sm_read_log[i], sm_read_log[i + 1], entry_size_,
                         begin_bits_) <= 0
        /\ Len(sm_read_log) = Len(sm_added) =>
              SameEntries(sm_read_log, sm_added)

C5_IsProofValidOnlyWhenQualityAndSelectorZero ==
    ffi_fn = "is_proof_valid" =>
        /\ ffi_ret \in {"true", "false"}
        /\ ffi_ret = "true" <=>
              /\ ffi_answer # Thrown
              /\ ffi_answer.val # EmptyBits
              /\ ffi_challenge[31] % 32 = 0
        /\ ffi_ret = "true" => ffi_out = ffi_answer.val
        /\ ffi_ret = "false" => ffi_out = Unwritten

\* is_proof_valid accepted a proof and wrote its quality.
C5_Witness ==
    /\ ffi_fn = "is_proof_valid"
    /\ ffi_ret = "true"
    /\ ffi_out \in Qualities

\* C6: subspace_chiapos_find_quality hands the prover a challenge whose
\* bytes 0..3 are challenge_index, least significant byte first, and whose
\* bytes 4..31 are zero; it returns true exactly when the prover returns a
\* non-empty list, and then writes the first quality of the list; when it
\* returns false the output buffer is not written.
C6_FindQualityFirstQuality ==
    ffi_fn = "find_quality" =>
        /\ ffi_challenge[0] = ffi_challenge_index % 256
        /\ ffi_challenge[1] = (ffi_challenge_index \div 256) % 256
        /\ ffi_challenge[2] = (ffi_challenge_index \div 65536) % 256
        /\ ffi_challenge[3] = ffi_challenge_index \div 16777216
        /\ \A i \in 4 .. 31 : ffi_challenge[i] = 0
        /\ ffi_ret = "true" <=> (ffi_answer # Thrown /\ Len(ffi_answer.val) > 0)
        /\ ffi_ret = "true" => ffi_out = ffi_answer.val[1]
        /\ ffi_ret # "true" => ffi_ret = "false" /\ ffi_out = Unwritten

\* find_quality got two different qualities for an index that fills all
\* four bytes, and wrote the first.
C6_Witness ==
    /\ ffi_fn = "find_quality"
    /\ ffi_challenge_index = 16909060
    /\ ffi_answer = Returned(<<[bits |-> "qB"], [bits |-> "qA"]>>)
    /\ ffi_ret = "true"
    /\ ffi_out = [bits |-> "qB"]

\* C7: an error raised inside GetQualitiesForChallenge, GetFullProof or
\* ValidateProof never leaves the entry point: the call returns false; and
\* create_proof returns true exactly when GetFullProof(challenge, 0)
\* completes without an error.
C7_ErrorsBecomeFalse ==
    ffi_fn # "none" =>
        /\ ffi_ret \in {"true", "false"}
        /\ ffi_answer = Thrown => ffi_ret = "false" /\ ffi_out = Unwritten
        /\ ffi_fn = "create_proof" => (ffi_ret = "true" <=> ffi_answer # Thrown)

\* GetFullProof threw and create_proof returned false.
C7_Witness ==
    /\ ffi_fn = "create_proof"
    /\ ffi_answer = Thrown
    /\ ffi_ret = "false"

\* The call has got past its checks, one way or the other.
PlotValidated == plot_pc # "validate"
PlotNothingRun ==
    /\ plot_steps = <<>>
    /\ tmp2_vector = NoVector
    /\ plot_returned = NoVector

\* C8: with a valid k and an effective buf_megabytes (the input, or 4608
\* for 0) below 10, CreatePlotDisk fails with InsufficientMemory; no phase
\* has run and there is no plot vector.
C8_SmallBudgetInsufficientMemory ==
    (/\ PlotValidated
     /\ plot_args.k >= kMinPlotSize /\ plot_args.k <= kMaxPlotSize
     /\ (IF plot_args.buf_megabytes_input = 0 THEN 4608
         ELSE plot_args.buf_megabytes_input) < 10)
    => /\ plot_pc = "thrown"
       /\ plot_error.kind = "InsufficientMemory"
       /\ PlotNothingRun
C8_Witness ==
    /\ plot_pc = "thrown"
    /\ plot_args.k = 17
    /\ plot_args.buf_megabytes_input = 9
    /\ plot_error.kind = "InsufficientMemory"

\* C9: every k outside [kMinPlotSize, kMaxPlotSize] is rejected with
\* InvalidValue for k, whatever the memory budget, bucket count or stripe
\* size, and no phase has run.
C9_InvalidKRejectedFirst ==
    (/\ PlotValidated
     /\ (plot_args.k < kMinPlotSize \/ plot_args.k > kMaxPlotSize))
    => /\ plot_pc = "thrown"
       /\ plot_error = InvalidValueException("Plot size k is invalid")
       /\ PlotNothingRun
C9_Witness ==
    /\ plot_pc = "thrown"
    /\ plot_args.k = 51
    /\ plot_args.buf_megabytes_input = 9
    /\ plot_args.num_buckets_input = 129
    /\ plot_args.stripe_size_input = 200000
    /\ plot_error = InvalidValueException("Plot size k is invalid")

\* C10: whenever the checks accept, the num_buckets handed to the phases
\* is a power of two in [kMinBuckets, kMaxBuckets], 2^log_num_buckets is
\* num_buckets, and a non-zero num_buckets_input has been rounded up to the
\* next power of two.
C10_AcceptedBucketsPowerOfTwo ==
    plot_params # NoParams =>
        /\ \E e \in 0 .. 30 : plot_params.num_buckets = 2 ^ e
        /\ plot_params.num_buckets >= kMinBuckets
        /\ plot_params.num_buckets <= kMaxBuckets
        /\ 2 ^ plot_params.log_num_buckets = plot_params.num_buckets
        /\ (plot_args.num_buckets_input # 0 =>
               /\ plot_params.num_buckets >= plot_args.num_buckets_input
               /\ plot_params.num_buckets \div 2 < plot_args.num_buckets_input)
C10_Witness ==
    /\ plot_pc = "phase1"
    /\ plot_args.num_buckets_input = 100
    /\ plot_params.num_buckets = 128
    /\ plot_params.log_num_buckets = 7

\* C11: past the memory checks, a non-zero num_buckets_input whose rounded
\* value is below kMinBuckets or above kMaxBuckets fails with InvalidValue;
\* with num_buckets_input = 0, a computed count 2 * RoundPow2(ceil(
\* max_table_size / (memory_size * kMemSortProportion))) below kMinBuckets
\* is raised to kMinBuckets without a bucket-count error, and one above
\* kMaxBuckets fails with InsufficientMemory.  The computed count is 2^e.
C11_BucketCountErrors ==
    LET a       == plot_args
        buf     == EffectiveBufMegabytes(a)
        sub     == 5 + Min(buf \div 20, 50)
                   + ((2 * (EffectiveStripeSize(a) + 5000))
                          * GetMaxEntrySize(a.k, 4)) \div 1048576
        rounded == RoundPow2(a.num_buckets_input)
        e       == 1 + CeilLog2Ratio(26 * MaxTableEntry(a.k), Max(a.k - 20, 0),
                                     15 * (buf - sub) * 2 ^ Max(20 - a.k, 0), 0)
    IN  (/\ PlotValidated
         /\ a.k >= kMinPlotSize /\ a.k <= kMaxPlotSize
         /\ buf >= 10 /\ sub < buf)
        => /\ (a.num_buckets_input # 0
                  /\ (rounded < kMinBuckets \/ rounded > kMaxBuckets))
              => (plot_pc = "thrown" /\ plot_error.kind = "InvalidValue"
                    /\ plot_error.what \in {"Minimum buckets is 16",
                                            "Maximum buckets is 128"})
           /\ (a.num_buckets_input = 0 /\ e > 7)
              => (plot_pc = "thrown" /\ plot_error.kind = "InsufficientMemory")
           /\ (a.num_buckets_input = 0 /\ e < 4)
              => /\ plot_error.what \notin {"Minimum buckets is 16",
                                            "Maximum buckets is 128",
                                            "Do not have enough memory"}
                 /\ plot_params # NoParams
                       => plot_params.num_buckets = kMinBuckets

\* C12: once WriteHeader has run on the empty plot vector, the vector holds
\* from offset 0, without gaps: the 19 bytes "Proof of Space Plot", the 32
\* bytes of the id, k, the length of the format description as two bytes,
\* most significant first, the format description, and 80 zero bytes; the
\* returned header size is the sum of these lengths and the vector's length.
C12_HeaderLayout ==
    (\E i \in DOMAIN plot_steps : plot_steps[i] = "header") =>
        /\ SubSeq(tmp2_vector, 1, 19) =
               <<80, 114, 111, 111, 102, 32, 111, 102, 32, 83, 112, 97, 99,
                 101, 32, 80, 108, 111, 116>>
        /\ SubSeq(tmp2_vector, 20, 51) = plot_args.id
        /\ tmp2_vector[52] = plot_args.k
        /\ 256 * tmp2_vector[53] + tmp2_vector[54] = Len(kFormatDescription)
        /\ SubSeq(tmp2_vector, 55, 54 + Len(kFormatDescription))
               = kFormatDescription
        /\ \A i \in 1 .. 80 :
               tmp2_vector[54 + Len(kFormatDescription) + i] = 0
        /\ plot_params.header_size = 19 + 32 + 1 + 2 + Len(kFormatDescription) + 80
        /\ plot_params.header_size = Len(tmp2_vector)
\* The header of a k = 32 plot has been written and phase 3 is next.
C12_Witness ==
    /\ plot_pc = "phase3"
    /\ plot_args.k = 32
    /\ tmp2_vector[52] = 32
    /\ Len(tmp2_vector) = 138
    /\ plot_params.header_size = 138

\* C13: the steps of CreatePlotDisk that have run are always a prefix of
\* phase 1, phase 2, header write, phase 3, phase 4 (so each runs at most
\* once, in this order, and only after the checks accepted); a vector is
\* handed to the caller only after phase 4, and it is the plot vector; a call
\* that failed in the checks or in a phase has returned no vector and takes
\* no further step.
C13_PipelineOrder ==
    /\ [](/\ \E n \in 0 .. 5 :
                plot_steps = SubSeq(<<"phase1", "phase2", "header", "phase3",
                                      "phase4">>, 1, n)
          /\ plot_steps # <<>> => plot_params # NoParams
          /\ plot_returned # NoVector =>
                /\ plot_pc = "returned"
                /\ Len(plot_steps) = 5
                /\ plot_returned = tmp2_vector
          /\ plot_pc \in {"thrown", "aborted"} =>
                /\ plot_error # NoError
                /\ plot_returned = NoVector)
    /\ [][(plot_pc \in {"thrown", "aborted", "returned"})
              => (plotVars' = plotVars)]_vars
\* A call ran all five steps and returned the plot vector.
C13_Witness ==
    /\ plot_pc = "returned"
    /\ plot_steps = <<"phase1", "phase2", "header", "phase3", "phase4">>
    /\ plot_returned = tmp2_vector
    /\ Len(plot_returned) = 138

\* C14: a read of a position that lies past the bucket after the currently
\* sorted one (more than one bucket boundary ahead, the bucket in between
\* holding entries and never triggered) fails with an error and returns no
\* data.
C14_ReadAcrossBucketsFails ==
    (/\ sm_call.op = "Read"
     /\ sm_call.before.next >= 1
     /\ sm_call.before.next < num_buckets
     /\ sm_call.before.memory # NoBuffer
     /\ sm_call.before.fpe
            = SumBytes(sm_call.before.buckets, sm_call.before.next)
     /\ Len(sm_call.before.buckets[sm_call.before.next + 1]) > 0
     /\ sm_call.arg >= sm_call.before.fpe
            + BucketBytes(sm_call.before.buckets[sm_call.before.next + 1]))
    => /\ sm_error # "none"
       /\ sm_ret = NoEntry

\* C15: after a TriggerNewBucket(p) that returned, every entry position q
\* with p <= q < the final_position_end before the call reads as it read
\* before the call.
C15_BackwardWindowKept ==
    (sm_call.op = "TriggerNewBucket" /\ sm_error = "none") =>
        \A q \in {x \in SmPositions :
                     sm_call.arg <= x /\ x < sm_call.before.fpe} :
            /\ ReadEntry(SmState, q).st.err = "none"
            /\ ReadEntry(SmState, q).ret = ReadEntry(sm_call.before, q).ret

\* C16: a read of a position below final_position_start that the
\* previous-bucket buffer does not hold (the position is below
\* prev_bucket_position_start, or its slot of the buffer was left zeroed
\* because its bucket was passed without being saved; every entry added is
\* non-zero) fails with an error, returns no data and changes no field.
C16_UncoveredBackwardReadFails ==
    (/\ sm_call.op = "Read"
     /\ sm_call.arg < sm_call.before.fps
     /\ \/ sm_call.arg < sm_call.before.prev_start
        \/ /\ sm_call.before.prev # NoBuffer
           /\ (sm_call.arg - sm_call.before.prev_start) \div entry_size_
                  \in DOMAIN sm_call.before.prev
           /\ sm_call.before.prev[(sm_call.arg - sm_call.before.prev_start)
                                      \div entry_size_] = 0)
    => /\ sm_error \notin {"none", "undefined"}
       /\ sm_ret = NoEntry
       /\ SmState = sm_call.before

\* C17: a call that starts a bucket sort sets done; done is never reset, by
\* no call; and every AddToCache made while done is set fails with "Already
\* finished" and leaves the buckets as they were.
C17_NoAddAfterSortStarted ==
    /\ [](/\ next_bucket_to_sort > 0 => done
          /\ (/\ sm_call.op = "Read"
              /\ sm_call.arg >= sm_call.before.fps
              /\ sm_call.arg >= sm_call.before.fpe) => done
          /\ (/\ sm_call.op = "TriggerNewBucket"
              /\ sm_call.arg >= sm_call.before.fps
              /\ sm_call.arg <= sm_call.before.fpe
              /\ sm_error # "undefined") => done
          /\ (sm_call.op = "AddToCache" /\ sm_call.before.done) =>
                /\ sm_error = "InvalidValue: already finished"
                /\ buckets_ = sm_call.before.buckets
                /\ done)
    /\ [][done => done']_vars
\* An AddToCache was refused after a sort and a Truncate(0) or FreeMemory.
C17_Witness ==
    /\ sm_call.op = "AddToCache"
    /\ sm_call.before.done
    /\ sm_call.before.next > 0
    /\ sm_call.before.memory = NoBuffer
    /\ sm_error = "InvalidValue: already finished"
    /\ buckets_ = sm_call.before.buckets

\* The y of an entry of the stand-alone sort.
SortY(entry) == ExtractNum(entry, SortEntryLen, sort_bits_begin, SortYBits)
\* The entries of s with the y of e, in the order of s.
WithY(s, e) == SelectSeq(s, LAMBDA x : SortY(x) = SortY(e))
\* What the compaction pass emitted.
SortEmitted == [i \in 1 .. sort_res.entries_written |-> sort_res.memory[i - 1]]

\* C19 (as stated): entries with equal y come out of the sort in the order
\* they were inserted in, whatever their remaining bits are.  Stated for the
\* calls that stay inside the output region.
C19_TiesKeepInsertionOrder ==
    (sort_res # NoResult /\ ~sort_res.past_end) =>
        \A i \in 1 .. Len(sort_input) :
            WithY(SortOutput, sort_input[i]) = WithY(sort_input, sort_input[i])

\* C19 (amended): of two emitted entries with equal y the one emitted first
\* is never the greater one in the bits from bits_begin to the end of the
\* entry: ties on y are broken by the remaining bits, not by insertion
\* order.
C19_TiesOrderedByRemainingBits ==
    sort_res # NoResult =>
        \A i, j \in 1 .. sort_res.entries_written :
            (i < j /\ SortY(SortEmitted[i]) = SortY(SortEmitted[j])) =>
                MemCmpBits(SortEmitted[i], SortEmitted[j], SortEntryLen,
                           sort_bits_begin) <= 0

C19_Witness ==
    /\ sort_input = <<97, 96>>
    /\ sort_bits_begin = 0
    /\ sort_res # NoResult
    /\ SortEmitted = <<96, 97>>

\* C20: at entry to every Read of a FilteredDisk whose filter has a set bit,
\* filter.get(last_idx_) holds and last_physical_ = last_idx_ * entry_size_;
\* a Read(j * entry_size_) that does not go back, with j below the number of
\* set bits, succeeds, reads the underlying disk at the index of the
\* (j+1)-th set bit times entry_size_, and leaves last_logical_ = begin with
\* the same two facts.
C20_FilteredRemap ==
    /\ (FdAlive /\ PopCount(filter_) >= 1) =>
          /\ InFilter(filter_, last_idx_) /\ filter_[last_idx_ + 1]
          /\ last_physical_ = last_idx_ * fd_entry_size
    /\ (/\ fd_call.op = "Read"
        /\ fd_call.arg % fd_entry_size = 0
        /\ fd_call.arg >= fd_call.before.logical
        /\ fd_call.arg \div fd_entry_size < PopCount(fd_call.before.filter)) =>
          LET at == NthSetBit(fd_call.before.filter,
                              (fd_call.arg \div fd_entry_size) + 1)
          IN  /\ fd_error = "none"
              /\ last_idx_ = at
              /\ last_physical_ = at * fd_entry_size
              /\ last_logical_ = fd_call.arg
              /\ filter_ = fd_call.before.filter /\ filter_[last_idx_ + 1]
              /\ underlying_ = FdFreshDisk(filter_, fd_entry_size) =>
                    fd_ret = [i \in 1 .. fd_entry_size |->
                                 DiskByte(at * fd_entry_size + i - 1)]

\* A read that skips a set bit and unset bits, and a repeat of a read.
C20_Witness ==
    /\ fd_call.op = "Read"
    /\ fd_error = "none"
    /\ fd_call.arg >= fd_call.before.logical + 2 * fd_entry_size
    /\ fd_call.arg \div fd_entry_size < PopCount(filter_)
    /\ fd_call.arg % fd_entry_size = 0
    /\ last_idx_ > fd_call.arg \div fd_entry_size
    /\ fd_ret # NoBytes

\* C18: Write on a SortManager or on a FilteredDisk ends with an error and
\* leaves every field, bucket and disk byte as it was; SortManager::Truncate
\* ends with an error for a size other than 0 and changes nothing, and for
\* size 0 returns with the sort buffer and the previous-bucket buffer
\* released.
C18_ReadOnlyDisks ==
    /\ sm_call.op = "Write" =>
          /\ sm_error \notin {"none", "undefined"}
          /\ SmState = sm_call.before
    /\ (sm_call.op = "Truncate" /\ sm_call.arg # 0) =>
          /\ sm_error \notin {"none", "undefined"}
          /\ SmState = sm_call.before
    /\ (sm_call.op = "Truncate" /\ sm_call.arg = 0) =>
          /\ sm_error = "none"
          /\ memory_start_ = NoBuffer
          /\ prev_bucket_buf_ = NoBuffer
          /\ buckets_ = sm_call.before.buckets
    /\ fd_call.op = "Write" =>
          /\ fd_error \notin {"none", "undefined"}
          /\ FdState = fd_call.before

\* Truncate(0) on a manager that held both buffers, next to a Write on a
\* FilteredDisk that has been read.
C18_Witness ==
    /\ sm_call.op = "Truncate" /\ sm_call.arg = 0
    /\ sm_call.before.memory # NoBuffer
    /\ sm_call.before.prev # NoBuffer
    /\ fd_call.op = "Write"
    /\ last_logical_ > 0

\* C21: whenever CreatePlotDisk gets past its memory checks (k is valid and
\* neither "at least 10MiB" nor "Please provide more memory" was thrown),
\* the budget left for sorting, buf_megabytes - sub_mbytes MiB, is strictly
\* positive.
C21_MemoryFloorPositive ==
    (/\ PlotValidated
     /\ plot_args.k >= kMinPlotSize /\ plot_args.k <= kMaxPlotSize
     /\ EffectiveBufMegabytes(plot_args) >= 10
     /\ plot_error # InsufficientMemoryException("Please provide more memory"))
    => EffectiveBufMegabytes(plot_args)
           - SubMbytes(plot_args.k, EffectiveStripeSize(plot_args),
                       EffectiveBufMegabytes(plot_args)) > 0

\* The last call made SortBucket run on a bucket that exists: a ReadEntry at
\* or past final_position_end, or a TriggerNewBucket inside the window.
SmCallSorted ==
    /\ sm_call.op \in {"Read", "TriggerNewBucket"}
    /\ sm_call.before.next < num_buckets
    /\ IF sm_call.op = "Read"
       THEN sm_call.arg >= sm_call.before.fps /\ sm_call.arg >= sm_call.before.fpe
       ELSE sm_call.arg >= sm_call.before.fps /\ sm_call.arg <= sm_call.before.fpe
\* The entries of the bucket that call sorted first.
SmCallBucketEntries == Len(sm_call.before.buckets[sm_call.before.next + 1])

\* C22: whenever SortBucket accepts a bucket (bucket_entries <= memory_size_
\* / entry_size_), the RoundSize(bucket_entries) slots of entry_size_ bytes
\* that SortToMemory clears and fills lie inside the memory_size_ bytes of
\* the sort buffer.
C22_SortRegionInsideBuffer ==
    (SmCallSorted /\ SmCallBucketEntries <= memory_size_ \div entry_size_)
    => RoundSize(SmCallBucketEntries) * entry_size_ <= memory_size_

\* C23: for every input of non-zero entries, every slot the probe loop of
\* SortToMemory reads and every slot an insertion writes lies below
\* memory_len: no entry is read or stored at byte offset memory_len.
C23_InsertionInBounds ==
    sort_res # NoResult => ~sort_res.past_end

\* C24: for every position TriggerNewBucket accepts (final_position_start
\* <= p <= final_position_end) with a sort buffer to save from, the bytes
\* copied into the previous-bucket buffer, final_position_end - p, are at
\* most prev_bucket_buf_size.
C24_TailCopyFits ==
    (/\ sm_call.op = "TriggerNewBucket"
     /\ sm_call.arg <= sm_call.before.fpe
     /\ sm_call.arg >= sm_call.before.fps
     /\ sm_call.before.memory # NoBuffer)
    => sm_call.before.fpe - sm_call.arg <= prev_bucket_buf_size

\* C25: a TriggerNewBucket(p) called in a state where CloseToNewBucket(p)
\* returns true does not fail with "Triggering bucket too late", "Triggering
\* bucket too early" or "Trying to sort bucket which does not exist".
C25_CloseThenTriggerSucceeds ==
    (/\ sm_call.op = "TriggerNewBucket"
     /\ CloseToNewBucket(sm_call.before, sm_call.arg))
    => sm_error \notin {"InvalidValue: triggering bucket too late",
                        "InvalidValue: triggering bucket too early",
                        "InvalidValue: bucket does not exist"}

\* C26: a TriggerNewBucket that fails (too late, too early, no bucket left
\* to sort, bucket too large for the memory) leaves final_position_start,
\* final_position_end, next_bucket_to_sort, prev_bucket_position_start and
\* the previous-bucket buffer as they were before the call.
C26_TriggerAtomicOnFailure ==
    (/\ sm_call.op = "TriggerNewBucket"
     /\ sm_error \in {"InvalidValue: triggering bucket too late",
                      "InvalidValue: triggering bucket too early",
                      "InvalidValue: bucket does not exist",
                      "InsufficientMemory"})
    => /\ final_position_start = sm_call.before.fps
       /\ final_position_end = sm_call.before.fpe
       /\ next_bucket_to_sort = sm_call.before.next
       /\ prev_bucket_position_start = sm_call.before.prev_start
       /\ prev_bucket_buf_ = sm_call.before.prev

\* C27: in every state the manager reaches by AddToCache, ReadEntry,
\* TriggerNewBucket, FlushCache, FreeMemory and Truncate(0),
\* final_position_start <= final_position_end, final_position_end is the
\* total size of buckets 0 .. next_bucket_to_sort - 1, final_position_end -
\* final_position_start is the size of the bucket in the sort buffer, and
\* next_bucket_to_sort never decreases.
C27_PositionInvariant ==
    /\ [](SmAlive =>
            /\ final_position_start <= final_position_end
            /\ final_position_end = SumBytes(buckets_, next_bucket_to_sort)
            /\ final_position_end - final_position_start =
                   IF next_bucket_to_sort = 0 THEN 0
                   ELSE BucketBytes(buckets_[next_bucket_to_sort]))
    /\ [][next_bucket_to_sort' >= next_bucket_to_sort]_vars

\* C28 (as stated): every ReadEntry returns an entry or fails with "Trying
\* to sort bucket which does not exist".
C28_ReadReturnsOrNoBucket ==
    sm_call.op = "Read" =>
        \/ sm_error = "none" /\ sm_ret # NoEntry
        \/ sm_error = "InvalidValue: bucket does not exist"

\* C28 (amended): a ReadEntry never sorts more than the buckets that remain.
\* Below final_position_start it sorts nothing and answers from the
\* previous-bucket buffer, or fails with InvalidState when the position is
\* below prev_bucket_position_start.  From final_position_start on it
\* returns an entry of the window it has sorted up to, or fails with "does
\* not exist" once every bucket is sorted, with InsufficientMemory on a
\* bucket larger than the memory, or in a sort that leaves the sort buffer.
C28_ReadEntryEnds ==
    sm_call.op = "Read" =>
        /\ next_bucket_to_sort >= sm_call.before.next
        /\ next_bucket_to_sort <= num_buckets
        /\ IF sm_call.arg < sm_call.before.fps
           THEN /\ next_bucket_to_sort = sm_call.before.next
                /\ sm_error \in {"none", "InvalidState: prev bucket start",
                                 "undefined"}
                /\ sm_error = "InvalidState: prev bucket start"
                       <=> sm_call.arg < sm_call.before.prev_start
           ELSE /\ sm_error \in {"none", "InvalidValue: bucket does not exist",
                                 "InsufficientMemory", "undefined"}
                /\ sm_error = "none" =>
                       /\ sm_ret # NoEntry
                       /\ final_position_start <= sm_call.arg
                       /\ sm_call.arg < final_position_end
                /\ sm_error = "InvalidValue: bucket does not exist" =>
                       next_bucket_to_sort = num_buckets
                /\ sm_error = "InsufficientMemory" =>
                       Len(buckets_[next_bucket_to_sort + 1])
                           > memory_size_ \div entry_size_
                /\ sm_error = "undefined" =>
                       LET b == buckets_[next_bucket_to_sort + 1] IN
                       \/ RoundSize(Len(b)) > memory_size_ \div entry_size_
                       \/ /\ RoundSize(Len(b)) = memory_size_ \div entry_size_
                          /\ SortToMemory(b, 0, entry_size_, Len(b),
                                 begin_bits_ + log_num_buckets_).past_end

\* A read beyond the bytes added, on a manager whose remaining buckets are
\* all empty: the rest of the buckets are sorted, then the read fails.
C28_Witness ==
    /\ sm_call.op = "Read"
    /\ Len(sm_added) > 0
    /\ sm_call.before.next > 0
    /\ sm_call.before.next < num_buckets
    /\ sm_call.arg >= SumBytes(buckets_, num_buckets)
    /\ sm_error = "InvalidValue: bucket does not exist"
    /\ next_bucket_to_sort = num_buckets

\* C29: the cached BufferedDisk behaves like a plain byte array: a Read
\* returns the bytes most recently written to its range, and after
\* FlushCache the backing vector holds every Write applied in call order.
C29_LikePlainByteArray ==
    /\ bd_call.op = "Read" =>
           bd_ret = VectorBytes(bd_plain, bd_call.begin, bd_call.length)
    /\ bd_call.op = "FlushCache" => disk_ = bd_plain

\* A Read into a read buffer that has been filled.
BdReadStep == bd_call'.op = "Read" /\ read_buffer_ # NoBuffer /\ read_buffer_start_ # -1

BdCacheKept ==
    /\ read_buffer_start_' = read_buffer_start_
    /\ read_buffer_size_' = read_buffer_size_
    /\ read_buffer_' = read_buffer_

\* C30 (as stated): every Read that begins before read_buffer_start_, a read
\* at offset 0 included, leaves the read buffer as it was.
C30_BackwardReadKeepsCache ==
    [][(BdReadStep /\ bd_call'.begin < read_buffer_start_) => BdCacheKept]_vars

\* C30 (amended): a Read that begins before read_buffer_start_ and above
\* offset 0 leaves the read buffer as it was and returns the bytes of the
\* vector; a Read at offset 0 moves the read buffer to offset 0.
C30_BackwardReadAboveZeroKeepsCache ==
    [][/\ (BdReadStep /\ 0 < bd_call'.begin /\ bd_call'.begin < read_buffer_start_)
          => /\ BdCacheKept
             /\ bd_ret' = VectorBytes(disk_, bd_call'.begin, bd_call'.length)
       /\ (BdReadStep /\ bd_call'.begin = 0 /\ 0 < read_buffer_start_)
          => /\ read_buffer_start_' = 0
             /\ read_buffer_size_' = Min(file_size_, read_ahead)
             /\ bd_ret' = VectorBytes(disk_, 0, bd_call'.length)]_vars

\* After a backward read above offset 0: the buffer still starts past it.
C30_Witness ==
    /\ bd_call.op = "Read"
    /\ read_buffer_ # NoBuffer
    /\ 0 < bd_call.begin
    /\ bd_call.begin < read_buffer_start_
    /\ read_buffer_size_ > 0
    /\ bd_ret = VectorBytes(disk_, bd_call.begin, bd_call.length)

\* C31: the bytes a Read returned stay as they were until the next Read on
\* the same disk object, whatever is read from other disks in between.
C31_ReadResultStable ==
    \A x \in TdObjects : TempBytes(temp, td_held[x].length) = td_held[x].bytes

\* C32: whatever the challenge_index, the challenge that
\* subspace_chiapos_is_proof_valid builds has bytes 4..31 equal to zero, so
\* the selector taken from its last five bits is 0: the call returns true
\* exactly when ValidateProof returns a quality of non-zero size, and the
\* branch that rejects a non-zero selector is never taken.
C32_SelectorAlwaysZero ==
    ffi_fn = "is_proof_valid" =>
        /\ \A i \in 4 .. 31 : ffi_challenge[i] = 0
        /\ SliceLast5(ffi_challenge) = 0
        /\ QualityIndex(ffi_challenge) = 0
        /\ ffi_ret = "true" <=>
              /\ ffi_answer # Thrown
              /\ ffi_answer.val # EmptyBits

\* is_proof_valid accepted a proof for an index all of whose four bytes are
\* non-zero, the lowest with non-zero low bits.
C32_Witness ==
    /\ ffi_fn = "is_proof_valid"
    /\ \A i \in 0 .. 3 : ffi_challenge[i] # 0
    /\ ffi_challenge[0] % 32 # 0
    /\ ffi_ret = "true"
    /\ ffi_out = ffi_answer.val
====
